---- MODULE Spec2Model ----
(***************************************************************************)
(* Verification model of quantum_attn/tk/attention.py: the fused attention *)
(* forward kernel fwd_attend_ker (one compute unit: one producer and       *)
(* CONSUMER_WARPGROUPS consumers over a two-slot K/V ring guarded by       *)
(* mbarrier semaphores), its masking, and the host launcher                *)
(* attention_forward.                                                      *)
(***************************************************************************)
EXTENDS Integers, Sequences, FiniteSets, TLC

VARIABLES
    \* ---- kernel specialization and launch parameters of one compute unit
    D,                \* template parameter D (head dimension)
    is_causal,        \* template parameter is_causal
    blockIdx,         \* [x, y, z] of the unit
    g,                \* fwd_globals: [N, hr]
    \* ---- semaphores (mbarrier objects in shared memory)
    qsmem_semaphore, k_smem_arrived, v_smem_arrived, compute_done, qk_done,
    \* ---- shared memory tiles and the asynchronous copies in flight
    q_o_smem, k_smem, v_smem, inflight,
    q_o_access,       \* who has read or written which Q/O region
    \* ---- producer warp
    ppc, p_kv_idx, p_kv_iters,
    \* ---- consumer warpgroups
    cpc, c_kv_idx, c_kv_iters,
    \* ---- history of the unit: loads issued, multiplies completed, stores
    k_loads, v_loads, qk_count, pv_count, o_stores,
    \* ---- one consumer warp walking its score blocks (masking)
    seq_len_q,        \* rows of g.q
    warpid, mpc, m_kv_idx, m_kv_iters, att_block,
    \* ---- the same warp's softmax state and the data it works on
    score_pattern,    \* which Q*K^T scores the inputs produce
    scale,            \* quantized build: scale_q * scale_k of the head
    max_vec, norm_vec, o_reg, max_vec_last,
    \* ---- host launcher attention_forward
    is_fp8,           \* TK_ATTN_IS_FP8
    q, k, v, scale_q, scale_k, causal, hpc, o, launch,
    \* ---- load_tk_attention_module called from Python threads
    TORCH_CUDA_ARCH_LIST,       \* os.environ["TORCH_CUDA_ARCH_LIST"]
    cache,                      \* functools.cache: argument tuples with a result
    lpc, call_args,             \* per thread: position, (dtype, is_fp8)
    old_torch_cuda_arch_list,   \* per thread: the local of that name
    module, exc,                \* per thread: the local module, the exception raised
    arch_list_before, builds    \* history: the variable at the start, load_inline calls

cfgvars  == <<D, is_causal, blockIdx, g>>
semvars  == <<qsmem_semaphore, k_smem_arrived, v_smem_arrived, compute_done, qk_done>>
smemvars == <<q_o_smem, k_smem, v_smem, inflight, q_o_access>>
prodvars == <<ppc, p_kv_idx, p_kv_iters>>
consvars == <<cpc, c_kv_idx, c_kv_iters>>
histvars == <<k_loads, v_loads, qk_count, pv_count, o_stores>>
kvars    == <<cfgvars, semvars, smemvars, prodvars, consvars, histvars>>

softvars == <<max_vec, norm_vec, o_reg, max_vec_last>>
mvars    == <<seq_len_q, warpid, mpc, m_kv_idx, m_kv_iters, att_block,
             score_pattern, scale, softvars>>
hvars    == <<is_fp8, q, k, v, scale_q, scale_k, causal, hpc, o, launch>>

lvars    == <<TORCH_CUDA_ARCH_LIST, cache, lpc, call_args, old_torch_cuda_arch_list,
             module, exc, arch_list_before, builds>>

vars == <<kvars, mvars, hvars, lvars>>

(***************************************************************************)
(* Bounds of the model.                                                    *)
(***************************************************************************)
MaxSeqBlocks == 3      \* sequence lengths go up to 64 * MaxSeqBlocks

\* Sequence lengths tried: around every multiple of 64 (the smallest tile
\* height): one past the previous multiple, and the multiple itself.
SeqLens == UNION {{64 * b - 63, 64 * b} : b \in 1..MaxSeqBlocks}

\* Key/value lengths of the pipeline model, where only the number of tiles
\* matters: a single position, an exact multiple of the largest tile
\* height, and one position past the largest multiple (at the smallest
\* tile height, 64, that makes 2 * MaxKvTiles + 1 tiles, enough for the
\* producer to come round to a slot's barrier a third time).  Query
\* lengths go up to 128 * MaxKvTiles, which decides how many units the
\* grid has along the sequence.
MaxKvTiles == 2
KernelMaxSeqLenQ == 128 * MaxKvTiles
KernelSeqLens == {1, 128 * (MaxKvTiles - 1), 128 * MaxKvTiles + 1}

(***************************************************************************)
(* Tile geometry: fwd_attend_ker_tile_dims<D> and the launch constants.    *)
(***************************************************************************)
HeadDims == {64, 128, 256}
TILE_ROW_DIM == 16
WARPGROUP_WARPS == 4
qo_height(d) == 4 * 16
kv_height(d) == IF d = 256 THEN 4 * 16 ELSE 8 * 16
stages == 2
CONSUMER_WARPGROUPS(d) == IF d = 256 THEN 2 ELSE 3
PRODUCER_WARPGROUPS == 1
MaxConsumers == 3
pipe_idx == stages - 1

\* Launch grid along the sequence: attention_forward, lines 502-503.
NumMBlocks(seq_q, d) ==
    LET block_size_m == CONSUMER_WARPGROUPS(d) * qo_height(d)
    IN  (seq_q + block_size_m - 1) \div block_size_m

CW == CONSUMER_WARPGROUPS(D)
Consumers == 0..(CW - 1)
Slots == 0..(stages - 1)

\* C integer division truncates toward zero; \div floors.  They agree on
\* the non-negative operands the kernel has.
kv_blocks == (g.N + kv_height(D) - 1) \div kv_height(D)
SeqIdxMutNoScale(x, d) == x
SeqIdx(x, d) == x * CONSUMER_WARPGROUPS(d)
seq_idx == SeqIdx(blockIdx.x, D)

(***************************************************************************)
(* Semaphores.  init_semaphore(bar, tc, txc) sets the arrival count to     *)
(* tc + txc.  A phase completes when the pending arrivals and the pending  *)
(* transaction bytes are both zero; wait(bar, parity) returns once the     *)
(* phase of that parity has completed, which the hardware decides from the *)
(* one-bit parity of the current phase.  Bytes are counted in tiles.       *)
(***************************************************************************)
NoSemaphore == [count |-> 0, pending |-> 0, tx |-> 0, phase |-> 0]
init_semaphore(tc, txc) ==
    [count |-> tc + txc, pending |-> tc + txc, tx |-> 0, phase |-> 0]
Settle(bar) ==
    IF bar.pending = 0 /\ bar.tx = 0
    THEN [bar EXCEPT !.phase = @ + 1, !.pending = bar.count]
    ELSE bar
arriveMutDouble(bar, n) == Settle([bar EXCEPT !.pending = @ - 2 * n])
arrive(bar, n) == Settle([bar EXCEPT !.pending = @ - n])
expect_bytesMutNoBytes(bar, bytes) == Settle([bar EXCEPT !.pending = @ - 1])
expect_bytes(bar, bytes) == Settle([bar EXCEPT !.tx = @ + bytes, !.pending = @ - 1])
complete_tx(bar, bytes) == Settle([bar EXCEPT !.tx = @ - bytes])
wait(bar, parity) == (bar.phase % 2) # parity
sizeof_tile == 1

(***************************************************************************)
(* Loop bounds of the two roles.                                           *)
(***************************************************************************)
ProducerKvItersMutExtra ==
    IF is_causal
    THEN LET n == (seq_idx * qo_height(D)) - 1 + (CW * qo_height(D))
         IN  n \div kv_height(D)
    ELSE kv_blocks - 1

ProducerKvItersMutShort ==
    IF is_causal
    THEN LET n == (seq_idx * qo_height(D)) - 1 + (CW * qo_height(D))
         IN  IF (n \div kv_height(D)) = 0 THEN 0 ELSE (n \div kv_height(D)) - 2
    ELSE kv_blocks - 3

ProducerKvIters ==
    IF is_causal
    THEN LET n == (seq_idx * qo_height(D)) - 1 + (CW * qo_height(D))
         IN  IF (n \div kv_height(D)) = 0 THEN 0 ELSE (n \div kv_height(D)) - 1
    ELSE kv_blocks - 2

ConsumerKvIters ==
    IF is_causal
    THEN LET n == (seq_idx * qo_height(D)) - 1 + (CW * qo_height(D))
         IN  n \div kv_height(D)
    ELSE kv_blocks - 1

\* The producer waits for a slot's release only once the ring is full.
ProducerMustWaitMutLate(kv_idx) == kv_idx > pipe_idx
ProducerMustWait(kv_idx) == kv_idx >= pipe_idx
ProducerWaitSlot(kv_idx) == (kv_idx - pipe_idx) % stages
ProducerWaitParityMutIdx(kv_idx) == kv_idx % 2
ProducerWaitParity(kv_idx) == ((kv_idx - pipe_idx) \div stages) % 2
ProducerLoadSlot(kv_idx) == (kv_idx + 1) % stages

ConsumerSlotMutZero(kv_idx) == 0
ConsumerSlot(kv_idx) == kv_idx % stages
ConsumerWaitParityMutIdx(kv_idx) == kv_idx % 2
ConsumerWaitParity(kv_idx) == (kv_idx \div stages) % 2

(***************************************************************************)
(* Kernel entry: nothing is initialized, every warp is at the top.         *)
(***************************************************************************)
NoTile == [tile |-> -1, loading |-> FALSE]

\* Shared memory and the warps before thread 0 has done anything.
KernelEntry(pc) ==
    /\ qsmem_semaphore = NoSemaphore
    /\ k_smem_arrived = [j \in Slots |-> NoSemaphore]
    /\ v_smem_arrived = [j \in Slots |-> NoSemaphore]
    /\ compute_done = [j \in Slots |-> NoSemaphore]
    /\ qk_done = [j \in Slots |-> NoSemaphore]
    /\ q_o_smem = [wg \in 0..(MaxConsumers - 1) |-> "empty"]
    /\ k_smem = [j \in Slots |-> NoTile]
    /\ v_smem = [j \in Slots |-> NoTile]
    /\ inflight = {}
    /\ q_o_access = {}
    /\ ppc = pc
    /\ p_kv_idx = 0
    /\ p_kv_iters = 0
    /\ cpc = [wg \in 0..(MaxConsumers - 1) |-> pc]
    /\ c_kv_idx = [wg \in 0..(MaxConsumers - 1) |-> 0]
    /\ c_kv_iters = [wg \in 0..(MaxConsumers - 1) |-> 0]
    /\ k_loads = <<>>
    /\ v_loads = <<>>
    /\ qk_count = [wg \in 0..(MaxConsumers - 1) |-> 0]
    /\ pv_count = [wg \in 0..(MaxConsumers - 1) |-> 0]
    /\ o_stores = <<>>

\* The parts of the state a specification does not exercise stay parked.
KernelIdle == KernelEntry("off")
ConfigIdle ==
    /\ D = 64 /\ is_causal = FALSE
    /\ blockIdx = [x |-> 0, y |-> 0, z |-> 0]
    /\ g = [N |-> 1, hr |-> 1]
MaskIdle ==
    /\ seq_len_q = 0 /\ warpid = 0 /\ mpc = "off"
    /\ m_kv_idx = 0 /\ m_kv_iters = 0 /\ att_block = <<>>
    /\ score_pattern = 0 /\ scale = 1
    /\ max_vec = <<>> /\ norm_vec = <<>> /\ o_reg = <<>> /\ max_vec_last = <<>>
NoTensor == [is_cuda |-> FALSE, device |-> 0, sizes |-> <<>>]
HostArgsIdle ==
    /\ causal = FALSE /\ hpc = "off"
    /\ q = NoTensor /\ k = NoTensor /\ v = NoTensor
    /\ scale_q = NoTensor /\ scale_k = NoTensor
    /\ o = "none" /\ launch = <<>>
HostIdle == is_fp8 = FALSE /\ HostArgsIdle

\* No Python thread has called the loader; the variable is not set.
LoaderThreads == {1, 2}
NotSet == "(not set)"
LoaderIdle ==
    /\ TORCH_CUDA_ARCH_LIST = NotSet /\ arch_list_before = NotSet
    /\ cache = {} /\ builds = <<>>
    /\ lpc = [t \in LoaderThreads |-> "off"]
    /\ call_args = [t \in LoaderThreads |-> <<"float16", FALSE>>]
    /\ old_torch_cuda_arch_list = [t \in LoaderThreads |-> NotSet]
    /\ module = [t \in LoaderThreads |-> "unbound"]
    /\ exc = [t \in LoaderThreads |-> "none"]

KernelInit ==
    /\ D \in HeadDims
    /\ is_causal \in BOOLEAN
    /\ blockIdx \in [x : 0..(NumMBlocks(KernelMaxSeqLenQ, D) - 1), y : {0}, z : {0}]
    /\ g \in [N : KernelSeqLens, hr : {1}]
    /\ KernelEntry("entry")
    /\ MaskIdle
    /\ HostIdle
    /\ LoaderIdle

(***************************************************************************)
(* Thread 0 initializes the semaphores, issues the Q loads and the         *)
(* prefetch of the first stages-1 K/V tiles; __syncthreads() releases the  *)
(* warps.  Each role then computes its loop bound (registers only).        *)
(***************************************************************************)
Load(buf, slot, tile) == [buf |-> buf, slot |-> slot, tile |-> tile]

\* An access to the Q/O region q_o_smem[region]: a "read" or "write" by
\* the warps of warpgroup who, or a "tma_read" or "tma_write" by the copy
\* engine for a copy that a thread of warpgroup who issued.  A consumer
\* addresses the region by its own warpgroupid.
Access(region, who, kind) == <<region, who, kind>>
QORegionMutShared(warpgroupid) == 0
QORegion(warpgroupid) == warpgroupid

Setup ==
    /\ ppc = "entry"
    /\ qsmem_semaphore' = expect_bytes(init_semaphore(0, 1), sizeof_tile * CW)
    /\ k_smem_arrived' = [j \in Slots |->
            IF j < stages - 1 THEN expect_bytes(init_semaphore(0, 1), sizeof_tile)
                              ELSE init_semaphore(0, 1)]
    /\ v_smem_arrived' = [j \in Slots |->
            IF j < stages - 1 THEN expect_bytes(init_semaphore(0, 1), sizeof_tile)
                              ELSE init_semaphore(0, 1)]
    /\ qk_done' = [j \in Slots |->
            IF D >= 128 THEN init_semaphore(CW, 0) ELSE NoSemaphore]
    /\ compute_done' = [j \in Slots |-> init_semaphore(CW, 0)]
    /\ q_o_smem' = [wg \in 0..(MaxConsumers - 1) |->
            IF wg \in Consumers THEN "q_loading" ELSE "empty"]
    /\ k_smem' = [j \in Slots |->
            IF j < stages - 1 THEN [tile |-> j, loading |-> TRUE] ELSE NoTile]
    /\ v_smem' = [j \in Slots |->
            IF j < stages - 1 THEN [tile |-> j, loading |-> TRUE] ELSE NoTile]
    /\ q_o_access' = {Access(wg, 0, "tma_write") : wg \in Consumers}
    /\ inflight' = {Load("q", wg, seq_idx + wg) : wg \in Consumers}
                   \cup {Load("k", j, j) : j \in 0..(stages - 2)}
                   \cup {Load("v", j, j) : j \in 0..(stages - 2)}
    /\ k_loads' = [j \in 1..(stages - 1) |-> <<j - 1, j - 1>>]
    /\ v_loads' = [j \in 1..(stages - 1) |-> <<j - 1, j - 1>>]
    /\ p_kv_iters' = ProducerKvIters
    /\ p_kv_idx' = pipe_idx - 1
    /\ ppc' = IF pipe_idx - 1 <= ProducerKvIters THEN "wait_k" ELSE "done"
    /\ c_kv_iters' = [wg \in 0..(MaxConsumers - 1) |->
            IF wg \in Consumers THEN ConsumerKvIters ELSE 0]
    /\ cpc' = [wg \in 0..(MaxConsumers - 1) |->
            IF wg \in Consumers THEN "wait_q" ELSE "absent"]
    /\ UNCHANGED <<mvars, hvars, lvars, cfgvars, c_kv_idx, qk_count, pv_count, o_stores>>

(***************************************************************************)
(* The TMA engine completes an asynchronous copy.  A load: the tile is in   *)
(* shared memory and its bytes are credited to the semaphore.  A store:    *)
(* the output tile has been written to global memory.                      *)
(***************************************************************************)
Landed(l) ==
    [tile |-> l.tile,
     loading |-> \E l2 \in inflight \ {l} : l2.buf = l.buf /\ l2.slot = l.slot]

LoadComplete ==
    \E l \in inflight :
        /\ inflight' = inflight \ {l}
        /\ CASE l.buf = "q" ->
                  /\ q_o_smem' = [q_o_smem EXCEPT ![l.slot] = "q"]
                  /\ qsmem_semaphore' = complete_tx(qsmem_semaphore, sizeof_tile)
                  /\ UNCHANGED <<k_smem, v_smem, k_smem_arrived, v_smem_arrived>>
             [] l.buf = "k" ->
                  /\ k_smem' = [k_smem EXCEPT ![l.slot] = Landed(l)]
                  /\ k_smem_arrived' = [k_smem_arrived EXCEPT
                         ![l.slot] = complete_tx(@, sizeof_tile)]
                  /\ UNCHANGED <<q_o_smem, v_smem, qsmem_semaphore, v_smem_arrived>>
             [] l.buf = "v" ->
                  /\ v_smem' = [v_smem EXCEPT ![l.slot] = Landed(l)]
                  /\ v_smem_arrived' = [v_smem_arrived EXCEPT
                         ![l.slot] = complete_tx(@, sizeof_tile)]
                  /\ UNCHANGED <<q_o_smem, k_smem, qsmem_semaphore, k_smem_arrived>>
             [] l.buf = "o" ->
                  \* an output store has drained to global memory
                  UNCHANGED <<q_o_smem, k_smem, v_smem, qsmem_semaphore,
                              k_smem_arrived, v_smem_arrived>>
        /\ UNCHANGED <<mvars, hvars, lvars, cfgvars, compute_done, qk_done, prodvars, consvars, histvars,
                       q_o_access>>

(***************************************************************************)
(* Producer warp (warpid == NUM_WORKERS-4): lines 171-193.                 *)
(***************************************************************************)
ProducerWaitKMutNoWait ==
    /\ ppc = "wait_k"
    /\ ppc' = "load_k"
    /\ UNCHANGED <<mvars, hvars, lvars, cfgvars, semvars, smemvars, p_kv_idx, p_kv_iters, consvars, histvars>>

ProducerWaitK ==
    /\ ppc = "wait_k"
    /\ ProducerMustWait(p_kv_idx) =>
          IF D >= 128
          THEN wait(qk_done[ProducerWaitSlot(p_kv_idx)], ProducerWaitParity(p_kv_idx))
          ELSE wait(compute_done[ProducerWaitSlot(p_kv_idx)], ProducerWaitParity(p_kv_idx))
    /\ ppc' = "load_k"
    /\ UNCHANGED <<mvars, hvars, lvars, cfgvars, semvars, smemvars, p_kv_idx, p_kv_iters, consvars, histvars>>

ProducerLoadK ==
    /\ ppc = "load_k"
    /\ LET s == ProducerLoadSlot(p_kv_idx)
           t == p_kv_idx + 1
       IN  /\ k_smem_arrived' = [k_smem_arrived EXCEPT ![s] = expect_bytes(@, sizeof_tile)]
           /\ k_smem' = [k_smem EXCEPT ![s] = [tile |-> t, loading |-> TRUE]]
           /\ inflight' = inflight \cup {Load("k", s, t)}
           /\ k_loads' = Append(k_loads, <<t, s>>)
    /\ ppc' = "wait_v"
    /\ UNCHANGED <<mvars, hvars, lvars, cfgvars, qsmem_semaphore, v_smem_arrived, compute_done, qk_done,
                   q_o_smem, q_o_access, v_smem, p_kv_idx, p_kv_iters, consvars,
                   v_loads, qk_count, pv_count, o_stores>>

ProducerWaitVMutNoWait ==
    /\ ppc = "wait_v"
    /\ ppc' = "load_v"
    /\ UNCHANGED <<mvars, hvars, lvars, cfgvars, semvars, smemvars, p_kv_idx, p_kv_iters, consvars, histvars>>

ProducerWaitV ==
    /\ ppc = "wait_v"
    /\ (D >= 128 /\ ProducerMustWait(p_kv_idx)) =>
          wait(compute_done[ProducerWaitSlot(p_kv_idx)], ProducerWaitParity(p_kv_idx))
    /\ ppc' = "load_v"
    /\ UNCHANGED <<mvars, hvars, lvars, cfgvars, semvars, smemvars, p_kv_idx, p_kv_iters, consvars, histvars>>

ProducerLoadV ==
    /\ ppc = "load_v"
    /\ LET s == ProducerLoadSlot(p_kv_idx)
           t == p_kv_idx + 1
       IN  /\ v_smem_arrived' = [v_smem_arrived EXCEPT ![s] = expect_bytes(@, sizeof_tile)]
           /\ v_smem' = [v_smem EXCEPT ![s] = [tile |-> t, loading |-> TRUE]]
           /\ inflight' = inflight \cup {Load("v", s, t)}
           /\ v_loads' = Append(v_loads, <<t, s>>)
    /\ p_kv_idx' = p_kv_idx + 1
    /\ ppc' = IF p_kv_idx + 1 <= p_kv_iters THEN "wait_k" ELSE "done"
    /\ UNCHANGED <<mvars, hvars, lvars, cfgvars, qsmem_semaphore, k_smem_arrived, compute_done, qk_done,
                   q_o_smem, q_o_access, k_smem, p_kv_iters, consvars,
                   k_loads, qk_count, pv_count, o_stores>>

(***************************************************************************)
(* Consumer warpgroup wg: lines 195-348.                                   *)
(***************************************************************************)
ConsumerWaitQ(wg) ==
    /\ cpc[wg] = "wait_q"
    /\ wait(qsmem_semaphore, 0)
    /\ cpc' = [cpc EXCEPT ![wg] = IF 0 <= c_kv_iters[wg] THEN "wait_k" ELSE "normalize"]
    /\ UNCHANGED <<mvars, hvars, lvars, cfgvars, semvars, smemvars, prodvars, c_kv_idx, c_kv_iters, histvars>>

\* wait(k_smem_arrived[slot], parity), then mm_ABt is issued: the
\* multiply reads q_o_smem[wg].q and k_smem[slot] until mma_async_wait.
ConsumerWaitK(wg) ==
    /\ cpc[wg] = "wait_k"
    /\ wait(k_smem_arrived[ConsumerSlot(c_kv_idx[wg])], ConsumerWaitParity(c_kv_idx[wg]))
    /\ q_o_access' = q_o_access \cup {Access(QORegion(wg), wg, "read")}
    /\ cpc' = [cpc EXCEPT ![wg] = "mm_qk"]
    /\ UNCHANGED <<mvars, hvars, lvars, cfgvars, semvars, q_o_smem, k_smem, v_smem, inflight,
                   prodvars, c_kv_idx, c_kv_iters, histvars>>

\* mma_async_wait returns: the Q*K^T multiply is complete.
ConsumerQKDone(wg) ==
    /\ cpc[wg] = "mm_qk"
    /\ qk_count' = [qk_count EXCEPT ![wg] = @ + 1]
    /\ cpc' = [cpc EXCEPT ![wg] = "qk_arrive"]
    /\ UNCHANGED <<mvars, hvars, lvars, cfgvars, semvars, smemvars, prodvars, c_kv_idx, c_kv_iters,
                   k_loads, v_loads, pv_count, o_stores>>

\* arrive(qk_done[slot]) for D >= 128, then scaling, masking and the
\* streaming-softmax update, which touch registers only.
ConsumerSoftmax(wg) ==
    /\ cpc[wg] = "qk_arrive"
    /\ qk_done' = IF D >= 128
                  THEN [qk_done EXCEPT ![ConsumerSlot(c_kv_idx[wg])] = arrive(@, 1)]
                  ELSE qk_done
    /\ cpc' = [cpc EXCEPT ![wg] = "wait_v"]
    /\ UNCHANGED <<mvars, hvars, lvars, cfgvars, qsmem_semaphore, k_smem_arrived, v_smem_arrived, compute_done,
                   smemvars, prodvars, c_kv_idx, c_kv_iters, histvars>>

ConsumerWaitV(wg) ==
    /\ cpc[wg] = "wait_v"
    /\ wait(v_smem_arrived[ConsumerSlot(c_kv_idx[wg])], ConsumerWaitParity(c_kv_idx[wg]))
    /\ cpc' = [cpc EXCEPT ![wg] = "mm_pv"]
    /\ UNCHANGED <<mvars, hvars, lvars, cfgvars, semvars, smemvars, prodvars, c_kv_idx, c_kv_iters, histvars>>

\* mma_async_wait returns: the P*V multiply is complete.
ConsumerPVDone(wg) ==
    /\ cpc[wg] = "mm_pv"
    /\ pv_count' = [pv_count EXCEPT ![wg] = @ + 1]
    /\ cpc' = [cpc EXCEPT ![wg] = "pv_arrive"]
    /\ UNCHANGED <<mvars, hvars, lvars, cfgvars, semvars, smemvars, prodvars, c_kv_idx, c_kv_iters,
                   k_loads, v_loads, qk_count, o_stores>>

\* arrive(compute_done[slot]) and the loop increment.
ConsumerArrive(wg) ==
    /\ cpc[wg] = "pv_arrive"
    /\ compute_done' = [compute_done EXCEPT ![ConsumerSlot(c_kv_idx[wg])] = arrive(@, 1)]
    /\ c_kv_idx' = [c_kv_idx EXCEPT ![wg] = @ + 1]
    /\ cpc' = [cpc EXCEPT ![wg] =
            IF c_kv_idx[wg] + 1 <= c_kv_iters[wg] THEN "wait_k" ELSE "normalize"]
    /\ UNCHANGED <<mvars, hvars, lvars, cfgvars, qsmem_semaphore, k_smem_arrived, v_smem_arrived, qk_done,
                   smemvars, prodvars, c_kv_iters, histvars>>

\* div_row, warpgroup::store into q_o_smem[wg].o, warpgroup::sync.
ConsumerNormalize(wg) ==
    /\ cpc[wg] = "normalize"
    /\ q_o_smem' = [q_o_smem EXCEPT ![QORegion(wg)] = "o"]
    /\ q_o_access' = q_o_access \cup {Access(QORegion(wg), wg, "write")}
    /\ cpc' = [cpc EXCEPT ![wg] = "store"]
    /\ UNCHANGED <<mvars, hvars, lvars, cfgvars, semvars, k_smem, v_smem, inflight, prodvars,
                   c_kv_idx, c_kv_iters, histvars>>

\* tma::store_async of the output tile (warp 0 of the warpgroup).
ConsumerStore(wg) ==
    /\ cpc[wg] = "store"
    /\ o_stores' = Append(o_stores,
            [z |-> blockIdx.z, y |-> blockIdx.y, tile |-> seq_idx + wg, wg |-> wg])
    /\ inflight' = inflight \cup {Load("o", wg, seq_idx + wg)}
    /\ q_o_access' = q_o_access \cup {Access(QORegion(wg), wg, "tma_read")}
    /\ cpc' = [cpc EXCEPT ![wg] = "store_wait"]
    /\ UNCHANGED <<mvars, hvars, lvars, cfgvars, semvars, q_o_smem, k_smem, v_smem, prodvars,
                   c_kv_idx, c_kv_iters, k_loads, v_loads, qk_count, pv_count>>

\* tma::store_async_wait returns once the stores this warpgroup issued
\* have drained.
StoreDrainedMutNoWait(wg) == TRUE
StoreDrained(wg) == ~\E l \in inflight : l.buf = "o" /\ l.slot = wg

\* tma::store_async_wait returns; the warpgroup retires.
ConsumerStoreWait(wg) ==
    /\ cpc[wg] = "store_wait"
    /\ StoreDrained(wg)
    /\ cpc' = [cpc EXCEPT ![wg] = "done"]
    /\ UNCHANGED <<mvars, hvars, lvars, cfgvars, semvars, smemvars, prodvars, c_kv_idx, c_kv_iters, histvars>>

Producer == ProducerWaitK \/ ProducerLoadK \/ ProducerWaitV \/ ProducerLoadV

Consumer(wg) ==
    \/ ConsumerWaitQ(wg) \/ ConsumerWaitK(wg) \/ ConsumerQKDone(wg)
    \/ ConsumerSoftmax(wg) \/ ConsumerWaitV(wg) \/ ConsumerPVDone(wg)
    \/ ConsumerArrive(wg) \/ ConsumerNormalize(wg) \/ ConsumerStore(wg)
    \/ ConsumerStoreWait(wg)

Init == KernelInit

Next ==
    \/ Setup
    \/ LoadComplete
    \/ Producer
    \/ \E wg \in 0..(MaxConsumers - 1) : Consumer(wg)

Spec == Init /\ [][Next]_vars

AllDone == ppc = "done" /\ \A wg \in Consumers : cpc[wg] = "done"

\* The hardware keeps running while any warp or any copy can step.  This
\* is the weakest progress assumption: it follows from fair scheduling of
\* each role (WF of every disjunct of Next implies WF of Next).
FairSpec == Init /\ [][Next]_vars /\ WF_vars(Next)

(***************************************************************************)
(* Claims about the producer/consumer pipeline of one compute unit.        *)
(***************************************************************************)
LastLoad(loads) == loads[Len(loads)]

\* C1: whenever the producer issues a load into a K slot (resp. V slot)
\* that held a tile before, that earlier tile had landed and every consumer
\* of the unit has completed its Q*K^T (resp. P*V) multiply on it.
C1_NoOverwriteWhileRead ==
    [][ /\ Len(k_loads') > Len(k_loads) =>
            LET old == k_smem[LastLoad(k_loads')[2]]
            IN  old.tile # -1 =>
                    /\ ~old.loading
                    /\ \A wg \in Consumers : qk_count[wg] > old.tile
        /\ Len(v_loads') > Len(v_loads) =>
            LET old == v_smem[LastLoad(v_loads')[2]]
            IN  old.tile # -1 =>
                    /\ ~old.loading
                    /\ \A wg \in Consumers : pv_count[wg] > old.tile
      ]_vars

\* C1 witness: the producer has reloaded a K slot and a V slot that
\* consumers had read from.
C1_Witness ==
    /\ \E s \in Slots : k_smem[s].tile >= stages
    /\ \E s \in Slots : v_smem[s].tile >= stages

\* C2: while a consumer's Q*K^T (resp. P*V) multiply of iteration kv_idx
\* is running, K slot (resp. V slot) kv_idx mod stages holds the landed
\* tile kv_idx.
C2_SlotHoldsTile ==
    \A wg \in Consumers :
        /\ cpc[wg] = "mm_qk" =>
               k_smem[c_kv_idx[wg] % stages] = [tile |-> c_kv_idx[wg], loading |-> FALSE]
        /\ cpc[wg] = "mm_pv" =>
               v_smem[c_kv_idx[wg] % stages] = [tile |-> c_kv_idx[wg], loading |-> FALSE]

\* C2 witness: a consumer multiplies out of a slot that has been reused,
\* for both K and V.
C2_Witness ==
    /\ \E wg \in Consumers : cpc[wg] = "mm_qk" /\ c_kv_idx[wg] >= stages
    /\ \E wg \in Consumers : cpc[wg] = "mm_pv" /\ c_kv_idx[wg] >= stages

\* C3: under fair scheduling the producer and every consumer of the unit
\* eventually terminate.
C3_Terminates == <>AllDone

\* C3 witness: the unit has retired after its consumers waited on reused
\* slots.
C3_Witness == AllDone /\ \E wg \in Consumers : c_kv_idx[wg] > stages

\* C9: the K/V tiles loaded are 0, 1, 2, ... in ascending order, each once,
\* tile t into slot t mod stages, never beyond the consumers' kv_iters, and
\* exactly 0..kv_iters once the unit has retired; in causal mode none lies
\* wholly past the unit's last query row, otherwise the last one is the
\* final tile of the sequence.
C9_LoadedTiles ==
    LET Ascending(loads) ==
            \A i \in 1..Len(loads) : loads[i] = <<i - 1, (i - 1) % stages>>
        Within(loads) ==
            \A wg \in Consumers : cpc[wg] # "entry" => Len(loads) <= c_kv_iters[wg] + 1
        Complete(loads) ==
            \A wg \in Consumers : Len(loads) = c_kv_iters[wg] + 1
        last_row == (seq_idx + CW) * qo_height(D) - 1
    IN  /\ Ascending(k_loads) /\ Ascending(v_loads)
        /\ Within(k_loads) /\ Within(v_loads)
        /\ AllDone => Complete(k_loads) /\ Complete(v_loads)
        /\ is_causal =>
               \A i \in 1..Len(k_loads) : k_loads[i][1] * kv_height(D) <= last_row
        /\ (~is_causal /\ ppc = "done") =>
               /\ LastLoad(k_loads)[1] = ((g.N + kv_height(D) - 1) \div kv_height(D)) - 1
               /\ LastLoad(v_loads)[1] = LastLoad(k_loads)[1]

\* C9 witness: the unit has retired after loading past the first ring.
C9_Witness == AllDone /\ Len(k_loads) > stages /\ Len(v_loads) > stages

(***************************************************************************)
(* Claims about the roles' control flow and the output store.              *)
(***************************************************************************)
StoresOf(wg) == {i \in 1..Len(o_stores) : o_stores[i].wg = wg}

\* C11: a consumer issues at most one output store, for its own query
\* tile, and only after all kv_iters+1 iterations are complete and the
\* normalized accumulator is in its output region; a retired consumer has
\* issued exactly one store and that store has drained.
C11_OneStoreAfterLoop ==
    \A wg \in Consumers :
        /\ Cardinality(StoresOf(wg)) <= 1
        /\ \A i \in StoresOf(wg) :
               /\ o_stores[i].tile = seq_idx + wg
               /\ qk_count[wg] = c_kv_iters[wg] + 1
               /\ pv_count[wg] = c_kv_iters[wg] + 1
               /\ q_o_smem[wg] = "o"
        /\ cpc[wg] = "done" =>
               /\ Cardinality(StoresOf(wg)) = 1
               /\ ~\E l \in inflight : l.buf = "o" /\ l.slot = wg

\* C11 witness: one consumer has retired while another still waits for
\* its store to drain, after several iterations.
C11_Witness ==
    \E wg1, wg2 \in Consumers :
        /\ cpc[wg1] = "done" /\ pv_count[wg1] > stages
        /\ cpc[wg2] = "store_wait"
        /\ \E l \in inflight : l.buf = "o" /\ l.slot = wg2

\* C14: every consumer moves only along INIT -> (WAIT_KEY -> ... ->
\* MATMUL_AV)* -> NORMALIZE -> STORE -> DONE; its only backward move is
\* the loop back-edge, which advances kv_idx by one and stays within
\* kv_iters; kv_iters never changes after it is computed; iteration
\* kv_idx is the (kv_idx+1)-th multiply of each kind, so the tiles are
\* processed in ascending order, each once, ending with tile kv_iters;
\* and the tile multiplied in iteration kv_idx is the one in slot
\* kv_idx mod stages.
\* (INIT is "entry" and "wait_q", WAIT_KEY "wait_k", MATMUL_QK "mm_qk",
\* MASK, RESCALE and SOFTMAX the step from "qk_arrive", WAIT_VALUE
\* "wait_v", MATMUL_AV "mm_pv" and "pv_arrive", STORE "store" and
\* "store_wait".)
C14_ConsumerStateMachine ==
    [][ \A wg \in Consumers :
          LET pc == cpc'[wg]
              idx == c_kv_idx'[wg]
              Successors ==
                  {<<"entry", "wait_q">>, <<"wait_q", "wait_k">>, <<"wait_q", "normalize">>,
                   <<"wait_k", "mm_qk">>, <<"mm_qk", "qk_arrive">>, <<"qk_arrive", "wait_v">>,
                   <<"wait_v", "mm_pv">>, <<"mm_pv", "pv_arrive">>,
                   <<"pv_arrive", "wait_k">>, <<"pv_arrive", "normalize">>,
                   <<"normalize", "store">>, <<"store", "store_wait">>,
                   <<"store_wait", "done">>}
          IN  /\ cpc'[wg] # cpc[wg] => <<cpc[wg], cpc'[wg]>> \in Successors
              /\ (cpc[wg] = "pv_arrive" /\ pc = "wait_k") =>
                     (idx = c_kv_idx[wg] + 1 /\ idx <= c_kv_iters[wg])
              /\ idx # c_kv_idx[wg] => (cpc[wg] = "pv_arrive" /\ idx = c_kv_idx[wg] + 1)
              /\ cpc[wg] # "entry" => c_kv_iters'[wg] = c_kv_iters[wg]
              /\ pc \in {"wait_k", "mm_qk"} =>
                     (qk_count'[wg] = idx /\ pv_count'[wg] = idx /\ idx <= c_kv_iters'[wg])
              /\ pc \in {"qk_arrive", "wait_v", "mm_pv"} =>
                     (qk_count'[wg] = idx + 1 /\ pv_count'[wg] = idx)
              /\ pc = "pv_arrive" =>
                     (qk_count'[wg] = idx + 1 /\ pv_count'[wg] = idx + 1)
              /\ pc \in {"normalize", "store", "store_wait", "done"} =>
                     /\ idx = c_kv_iters'[wg] + 1
                     /\ qk_count'[wg] = idx /\ pv_count'[wg] = idx
              /\ pc = "mm_qk" => k_smem'[idx % stages].tile = idx
              /\ pc = "mm_pv" => v_smem'[idx % stages].tile = idx
      ]_vars

\* C14 witness: one consumer has retired after looping back more than
\* stages times while another is still in its last P*V multiply.
C14_Witness ==
    \E wg1, wg2 \in Consumers :
        /\ cpc[wg1] = "done" /\ c_kv_idx[wg1] > stages
        /\ cpc[wg2] = "mm_pv"

(***************************************************************************)
(* Claims about the barriers.  A barrier's phase counts the phases it has  *)
(* completed; in slot s, tile t is the use number t div stages.            *)
(***************************************************************************)
\* C16: the producer reloads a K slot only after the qk_done phase of the
\* tile it replaces has completed when D >= 128 (every consumer is past its
\* qk_done arrival for that tile) and only after its compute_done phase
\* when D = 64; it reloads a V slot only after the compute_done phase of
\* the tile it replaces (every consumer is past that iteration).  A
\* consumer arrives at qk_done only with its Q*K^T multiply of that tile
\* complete, and at compute_done only with its P*V multiply complete.
C16_ReloadAfterSignals ==
    [][ ppc # "entry" =>
          /\ Len(k_loads') > Len(k_loads) =>
                LET s == LastLoad(k_loads')[2]
                    old == k_smem[s].tile
                IN  old # -1 =>
                        IF D >= 128
                        THEN /\ qk_done[s].phase > old \div stages
                             /\ \A wg \in Consumers :
                                    \/ c_kv_idx[wg] > old
                                    \/ /\ c_kv_idx[wg] = old
                                       /\ cpc[wg] \in {"wait_v", "mm_pv", "pv_arrive"}
                        ELSE /\ compute_done[s].phase > old \div stages
                             /\ \A wg \in Consumers : c_kv_idx[wg] > old
          /\ Len(v_loads') > Len(v_loads) =>
                LET s == LastLoad(v_loads')[2]
                    old == v_smem[s].tile
                IN  old # -1 =>
                        /\ compute_done[s].phase > old \div stages
                        /\ \A wg \in Consumers : c_kv_idx[wg] > old
          /\ \A s \in Slots :
                /\ qk_done'[s] # qk_done[s] =>
                       \E wg \in Consumers :
                           /\ cpc'[wg] # cpc[wg]
                           /\ c_kv_idx[wg] % stages = s
                           /\ qk_count[wg] = c_kv_idx[wg] + 1
                /\ compute_done'[s] # compute_done[s] =>
                       \E wg \in Consumers :
                           /\ cpc'[wg] # cpc[wg]
                           /\ c_kv_idx[wg] % stages = s
                           /\ pv_count[wg] = c_kv_idx[wg] + 1
      ]_vars

\* C16 witness: with D >= 128 a K slot holds a reloaded tile while some
\* consumer has not yet completed its P*V multiply of the tile that was
\* there before, and the V slot still holds that earlier tile.
C16_Witness ==
    /\ D >= 128
    /\ \E s \in Slots : \E wg \in Consumers :
          /\ k_smem[s].tile >= stages
          /\ pv_count[wg] <= k_smem[s].tile - stages
          /\ v_smem[s].tile = k_smem[s].tile - stages

\* C17: compute_done[s] (and qk_done[s] when D >= 128) expects
\* CONSUMER_WARPGROUPS arrivals per phase; every arrival is made by one
\* consumer for its current tile and falls into the phase of that tile,
\* so a phase holds one arrival from each consumer, all for one tile, and
\* completes exactly with the last of them; the arrivals received add up
\* to those the consumers made.  k_smem_arrived[s] and v_smem_arrived[s]
\* complete one phase per landed load, the load of that phase's tile.  All
\* consumers of the unit have the same kv_iters.
C17_ExactArrivals ==
    [][ ppc # "entry" =>
          LET Uses(n, s) == Cardinality({u \in 0..(n - 1) : u % stages = s})
              PastQK(wg, s) ==
                  Uses(c_kv_idx'[wg], s) +
                      (IF /\ c_kv_idx'[wg] % stages = s
                          /\ cpc'[wg] \in {"wait_v", "mm_pv", "pv_arrive"}
                       THEN 1 ELSE 0)
              Sum3(f) == f[0] + f[1] + f[2]
              Received(bar) == bar.phase * CW + (CW - bar.pending)
              OneArrival(old, new, s) ==
                  new # old =>
                      /\ \E wg \in Consumers :
                             /\ cpc'[wg] # cpc[wg]
                             /\ \A w2 \in Consumers \ {wg} : cpc'[w2] = cpc[w2]
                             /\ c_kv_idx[wg] % stages = s
                             /\ old.phase = c_kv_idx[wg] \div stages
                      /\ Received(new) = Received(old) + 1
                      /\ new.phase # old.phase <=> old.pending = 1
              OneLoad(old, new, buf, s) ==
                  new.phase # old.phase =>
                      /\ new.phase = old.phase + 1
                      /\ \E l \in inflight \ inflight' :
                             /\ l.buf = buf /\ l.slot = s
                             /\ l.tile \div stages = old.phase
                             /\ l.tile % stages = s
                      /\ Cardinality(inflight \ inflight') = 1
          IN  /\ \A s \in Slots :
                    /\ OneArrival(compute_done[s], compute_done'[s], s)
                    /\ compute_done'[s].count = CW
                    /\ compute_done'[s].pending \in 1..CW
                    /\ Received(compute_done'[s]) =
                           Sum3([wg \in 0..(MaxConsumers - 1) |->
                                   IF wg \in Consumers THEN Uses(c_kv_idx'[wg], s) ELSE 0])
                    /\ D >= 128 =>
                           /\ OneArrival(qk_done[s], qk_done'[s], s)
                           /\ qk_done'[s].count = CW
                           /\ qk_done'[s].pending \in 1..CW
                           /\ Received(qk_done'[s]) =
                                  Sum3([wg \in 0..(MaxConsumers - 1) |->
                                          IF wg \in Consumers THEN PastQK(wg, s) ELSE 0])
                    /\ OneLoad(k_smem_arrived[s], k_smem_arrived'[s], "k", s)
                    /\ OneLoad(v_smem_arrived[s], v_smem_arrived'[s], "v", s)
                    /\ k_smem_arrived'[s].count = 1 /\ v_smem_arrived'[s].count = 1
              /\ \A wg1, wg2 \in Consumers : c_kv_iters'[wg1] = c_kv_iters'[wg2]
      ]_vars

\* C17 witness: a compute_done barrier is in its second phase with some
\* but not all of that phase's arrivals in, and the load barriers of the
\* slot have completed two phases.
C17_Witness ==
    \E s \in Slots :
        /\ compute_done[s].phase = 1
        /\ compute_done[s].pending \in 1..(compute_done[s].count - 1)
        /\ k_smem_arrived[s].phase = 2 /\ v_smem_arrived[s].phase = 2

\* C18 as stated: the K tiles whose load has been issued outnumber the K
\* tiles on which the slowest consumer has completed its Q*K^T multiply by
\* at most stages, likewise the V tiles and the completed P*V multiplies,
\* and no consumer is in iteration t + stages, from its wait on K on,
\* before every consumer has completed its Q*K^T multiply of iteration t.
C18_StartsAfterAll ==
    LET Slowest(f) ==
            CHOOSE n \in {f[wg] : wg \in Consumers} : \A wg \in Consumers : n <= f[wg]
    IN  /\ Len(k_loads) - Slowest(qk_count) <= stages
        /\ Len(v_loads) - Slowest(pv_count) <= stages
        /\ \A wg \in Consumers :
               (/\ cpc[wg] \in {"wait_k", "mm_qk", "qk_arrive", "wait_v", "mm_pv", "pv_arrive"}
                /\ c_kv_idx[wg] >= stages)
                   => \A w2 \in Consumers : qk_count[w2] > c_kv_idx[wg] - stages

\* C18 amended: the same two bounds, and a consumer that has got past its
\* wait on K in iteration t + stages (it may already be waiting there)
\* finds that every consumer of the unit has completed its Q*K^T multiply
\* of iteration t.
C18_BoundedRunAhead ==
    LET Slowest(f) ==
            CHOOSE n \in {f[wg] : wg \in Consumers} : \A wg \in Consumers : n <= f[wg]
    IN  /\ Len(k_loads) - Slowest(qk_count) <= stages
        /\ Len(v_loads) - Slowest(pv_count) <= stages
        /\ \A wg \in Consumers :
               (/\ cpc[wg] \in {"mm_qk", "qk_arrive", "wait_v", "mm_pv", "pv_arrive"}
                /\ c_kv_idx[wg] >= stages)
                   => \A w2 \in Consumers : qk_count[w2] > c_kv_idx[wg] - stages

\* C18 witness: the bound is attained: a consumer multiplies tile
\* t + stages, the newest tile issued, while another consumer has
\* completed Q*K^T on tile t and not on tile t + 1.
C18_Witness ==
    \E wg1, wg2 \in Consumers :
        /\ cpc[wg1] = "mm_qk" /\ c_kv_idx[wg1] >= stages
        /\ qk_count[wg2] = c_kv_idx[wg1] - stages + 1
        /\ Len(k_loads) = qk_count[wg2] + stages

\* C19: a consumer waiting in iteration kv_idx on k_smem_arrived or
\* v_smem_arrived of slot kv_idx mod stages (use n = kv_idx div stages)
\* finds that barrier with n or n + 1 completed phases, and so does the
\* producer waiting in iteration kv_idx >= pipe_idx on qk_done or
\* compute_done of slot (kv_idx - pipe_idx) mod stages (use
\* n = (kv_idx - pipe_idx) div stages); the wait with parity n mod 2
\* returns exactly when the barrier has completed n + 1 phases.
C19_ParityNeverWraps ==
    LET InPhase(bar, n) ==
            /\ bar.phase \in {n, n + 1}
            /\ wait(bar, n % 2) <=> bar.phase = n + 1
        pn == (p_kv_idx - (stages - 1)) \div stages
        ps == (p_kv_idx - (stages - 1)) % stages
    IN  /\ \A wg \in Consumers :
               LET n == c_kv_idx[wg] \div stages
                   s == c_kv_idx[wg] % stages
               IN  /\ cpc[wg] = "wait_k" => InPhase(k_smem_arrived[s], n)
                   /\ cpc[wg] = "wait_v" => InPhase(v_smem_arrived[s], n)
        /\ (ppc = "wait_k" /\ p_kv_idx >= stages - 1) =>
               IF D >= 128 THEN InPhase(qk_done[ps], pn)
                           ELSE InPhase(compute_done[ps], pn)
        /\ (ppc = "wait_v" /\ p_kv_idx >= stages - 1 /\ D >= 128) =>
               InPhase(compute_done[ps], pn)

\* C19 witness: the producer is blocked in its second wait on a slot's
\* barrier (parity 1) while a consumer's second wait on a load barrier is
\* ready to return.
C19_Witness ==
    /\ ppc = "wait_k" /\ p_kv_idx - (stages - 1) >= stages
    /\ LET bar == IF D >= 128 THEN qk_done ELSE compute_done
       IN  bar[(p_kv_idx - (stages - 1)) % stages].phase
               = (p_kv_idx - (stages - 1)) \div stages
    /\ \E wg \in Consumers :
          /\ cpc[wg] = "wait_k" /\ c_kv_idx[wg] >= stages
          /\ k_smem_arrived[c_kv_idx[wg] % stages].phase = (c_kv_idx[wg] \div stages) + 1

\* C20: the output tile is written into the Q/O region of consumer wg by
\* consumer wg itself, when the load of its Q tile has landed there and
\* all its kv_iters+1 Q*K^T multiplies are complete; while a multiply
\* reads the region it holds Q; and every read or write of a region by
\* warps, and the store that reads it, comes from the region's own
\* consumer, the only other access being the Q load of the setup.
C20_QThenO ==
    [][ /\ \A wg \in Consumers :
              /\ (q_o_smem'[wg] = "o" /\ q_o_smem[wg] # "o") =>
                     /\ q_o_smem[wg] = "q"
                     /\ ~\E l \in inflight : l.buf = "q" /\ l.slot = wg
                     /\ cpc[wg] = "normalize" /\ cpc'[wg] = "store"
                     /\ qk_count[wg] = c_kv_iters[wg] + 1
              /\ cpc'[wg] = "mm_qk" => q_o_smem'[wg] = "q"
        /\ \A a \in q_o_access' :
              /\ a[3] \in {"read", "write", "tma_read"} => a[2] = a[1]
              /\ a[3] = "tma_write" => (a \in q_o_access \/ ppc = "entry")
      ]_vars

\* C20 witness: one consumer has overwritten its Q with its output tile
\* while another consumer's multiply is still reading its own Q.
C20_Witness ==
    \E wg1, wg2 \in Consumers :
        /\ q_o_smem[wg1] = "o" /\ <<wg1, wg1, "write">> \in q_o_access
        /\ cpc[wg2] = "mm_qk" /\ q_o_smem[wg2] = "q"

\* C24: the step on which the producer or a consumer leaves the kernel
\* entry is the one on which thread 0 has initialized every barrier and
\* issued the loads of the CONSUMER_WARPGROUPS query tiles (tile
\* blockIdx.x * CONSUMER_WARPGROUPS + wg into region wg) and of K/V tile 0
\* into slot 0, the only prefetch; the Q barrier's first phase completes
\* with the landing of the last of these query tiles and not before, and
\* no consumer is past its wait on it, let alone multiplying, while a
\* query tile of the unit is still in flight.
C24_SetupBeforeRoles ==
    [][ /\ ((ppc = "entry" /\ ppc' # "entry")
             \/ (\E wg \in Consumers : cpc[wg] = "entry" /\ cpc'[wg] # "entry")) =>
               /\ ppc = "entry" /\ \A wg \in Consumers : cpc[wg] = "entry"
               /\ inflight = {} /\ inflight' =
                      {Load("q", wg, blockIdx.x * CONSUMER_WARPGROUPS(D) + wg) :
                           wg \in Consumers}
                      \cup {Load("k", 0, 0), Load("v", 0, 0)}
               /\ qsmem_semaphore'.count = 1 /\ qsmem_semaphore'.phase = 0
               /\ qsmem_semaphore'.tx = CONSUMER_WARPGROUPS(D) * sizeof_tile
               /\ \A j \in Slots :
                      /\ k_smem_arrived'[j].count = 1 /\ v_smem_arrived'[j].count = 1
                      /\ k_smem_arrived'[j].phase = 0 /\ v_smem_arrived'[j].phase = 0
                      /\ k_smem_arrived'[j].tx = (IF j = 0 THEN sizeof_tile ELSE 0)
                      /\ v_smem_arrived'[j].tx = (IF j = 0 THEN sizeof_tile ELSE 0)
                      /\ compute_done'[j].count = CONSUMER_WARPGROUPS(D)
                      /\ compute_done'[j].pending = CONSUMER_WARPGROUPS(D)
                      /\ D >= 128 => qk_done'[j].pending = CONSUMER_WARPGROUPS(D)
               /\ ppc' \in {"wait_k", "done"}
               /\ \A wg \in Consumers : cpc'[wg] = "wait_q"
        /\ (\/ qsmem_semaphore'.phase # 0
            \/ \E wg \in Consumers :
                   cpc'[wg] \notin {"entry", "wait_q"} \/ qk_count'[wg] > 0) =>
               /\ ~\E l \in inflight' : l.buf = "q"
               /\ \A wg \in Consumers : q_o_smem'[wg] \in {"q", "o"}
        /\ (qsmem_semaphore.phase = 0 /\ qsmem_semaphore'.phase # 0) =>
               /\ \E l \in inflight : l.buf = "q" /\ inflight' = inflight \ {l}
               /\ Cardinality({l \in inflight : l.buf = "q"}) = 1
      ]_vars

\* C24 witness: in a unit other than the first, one consumer is in its
\* first Q*K^T multiply, all query tiles of the unit having landed, while
\* another consumer has not yet passed its wait on the Q barrier.
C24_Witness ==
    /\ blockIdx.x >= 1
    /\ \E wg1, wg2 \in Consumers :
           /\ cpc[wg1] = "mm_qk" /\ qk_count[wg1] = 0
           /\ cpc[wg2] = "wait_q"
    /\ \A wg \in Consumers : q_o_smem[wg] = "q"

(***************************************************************************)
(* Masking.  One consumer warp (warpid within the unit's consumer warps)   *)
(* owns 16 query rows and, per iteration, a 16 x kv_height block of        *)
(* scores att_block.  An entry is "raw" as the multiply left it (a score,  *)
(* or the zero of a zero-filled row beyond the end of K) or "neg_inf".     *)
(***************************************************************************)
ConsumerWarps(d) == 0..(CONSUMER_WARPGROUPS(d) * WARPGROUP_WARPS - 1)
Rows == 0..(TILE_ROW_DIM - 1)
Cols(d) == 0..(kv_height(d) - 1)

\* Where the data of the block comes from: q_o_smem[wg] holds query tile
\* seq_idx + wg, of which warp (warpid mod 4) of the warpgroup multiplies
\* rows 16*(warpid mod 4) ..; k_smem holds key tile kv_idx.
QueryRow(r) ==
    (seq_idx + (warpid \div WARPGROUP_WARPS)) * qo_height(D)
        + (warpid % WARPGROUP_WARPS) * TILE_ROW_DIM + r
KeyPos(kv_idx, c) == kv_idx * kv_height(D) + c

\* The causal branch runs its mask test in the last two iterations only.
MaskTestRunsMutLast(kv_idx, kv_iters) == kv_idx = kv_iters
MaskTestRuns(kv_idx, kv_iters) == kv_idx = kv_iters - 1 \/ kv_idx = kv_iters

q_blkMutPrev == (seq_idx * (qo_height(D) \div TILE_ROW_DIM)) + warpid - 1
q_blk == (seq_idx * (qo_height(D) \div TILE_ROW_DIM)) + warpid
k_blk(kv_idx) == kv_idx * (kv_height(D) \div TILE_ROW_DIM)

\* make_causal on a 16x16 subtile keeps column <= row and fills the rest.
make_causalMutStrict(r, c) == IF c < r THEN "raw" ELSE "neg_inf"
make_causal(r, c) == IF c <= r THEN "raw" ELSE "neg_inf"
\* right_fill fills the columns from col_idx on.
right_fillMutStrict(val, c, col_idx) == IF c > col_idx THEN "neg_inf" ELSE val
right_fill(val, c, col_idx) == IF c >= col_idx THEN "neg_inf" ELSE val

CausalMask(blk, kv_idx, kv_iters) ==
    IF MaskTestRuns(kv_idx, kv_iters)
    THEN [r \in Rows |-> [c \in Cols(D) |->
            LET k_idx == k_blk(kv_idx) + (c \div TILE_ROW_DIM)
            IN  IF k_idx > q_blk THEN "neg_inf"
                ELSE IF k_idx = q_blk
                     THEN IF blk[r][c] = "neg_inf" THEN "neg_inf"
                          ELSE make_causal(r, c % TILE_ROW_DIM)
                     ELSE blk[r][c]]]
    ELSE blk

RaggedMask(blk, kv_idx, kv_iters) ==
    IF kv_idx = kv_iters /\ g.N % kv_height(D) # 0
    THEN [r \in Rows |-> [c \in Cols(D) |->
            right_fill(blk[r][c], c, g.N % kv_height(D))]]
    ELSE blk

(***************************************************************************)
(* The numbers of the softmax.  A float is a finite number, an infinity or *)
(* NaN.  Scores and row maxima are whole numbers; the results of exp2, the *)
(* normalizer and the accumulator are counted in units of 2^-FracBits,     *)
(* which is exact as long as no exponent falls below -FracBits.            *)
(***************************************************************************)
Num(n) == [k |-> "num", v |-> n]
neg_infty == [k |-> "-inf", v |-> 0]
pos_infty == [k |-> "+inf", v |-> 0]
NaN == [k |-> "nan", v |-> 0]

\* The scores Q*K^T that the inputs produce, the factor scale_q * scale_k
\* of the quantized build, and the values in one column of V.
ScoreValues == {-1, 0, 1}
QuantScales == {2}
ScorePatterns == {0, 1}

\* 1.44269504089 * 0.125, * 0.08838834764, * 0.0625 for D = 64, 128, 256:
\* positive and decreasing with D.  Whole numbers of the same sign and
\* order stand for them, so that every exponent is a whole number.
SoftmaxScale(d) == IF d = 64 THEN 3 ELSE IF d = 128 THEN 2 ELSE 1

SetMax(S) == CHOOSE x \in S : \A y \in S : y <= x
SetMin(S) == CHOOSE x \in S : \A y \in S : x <= y
FracBits ==
    (SetMax(ScoreValues) - SetMin(ScoreValues)) * SoftmaxScale(64) * SetMax(QuantScales)
FracUnit == 2 ^ FracBits
HalfUnit == 2 ^ (FracBits \div 2)

\* Query row i against key position j.  Rows of Q and K beyond the end of
\* the tensor are filled with zeros by the load, so their score is 0.
\* The two patterns let the scores rise from tile to tile in the even or
\* in the odd rows and fall in the others.
Score(i, j) ==
    IF i >= seq_len_q \/ j >= g.N THEN 0
    ELSE IF (i + score_pattern) % 2 = 0
         THEN SetMin(ScoreValues) + ((j \div 64) % Cardinality(ScoreValues))
         ELSE SetMax(ScoreValues) - ((j \div 64) % Cardinality(ScoreValues))
VColumn(j) == IF j >= g.N THEN 0 ELSE 1 + (j % 2)

fmax(a, b) ==
    IF a.k = "-inf" THEN b
    ELSE IF b.k = "-inf" THEN a
    ELSE Num(IF a.v >= b.v THEN a.v ELSE b.v)
\* x * c for a positive constant c
mul_const(a, c) == IF a.k = "num" THEN Num(a.v * c) ELSE a
sub(a, b) ==
    IF a.k = "nan" \/ b.k = "nan" THEN NaN
    ELSE IF a.k = "num" /\ b.k = "num" THEN Num(a.v - b.v)
    ELSE IF a.k = b.k THEN NaN
    ELSE IF a.k = "-inf" \/ b.k = "+inf" THEN neg_infty
    ELSE pos_infty
exp2(x) ==
    IF x.k = "nan" THEN NaN
    ELSE IF x.k = "-inf" THEN Num(0)
    ELSE IF x.k = "+inf" THEN pos_infty
    ELSE IF x.v < -FracBits THEN Num(0)
    ELSE Num(2 ^ (FracBits + x.v))
add(a, b) ==
    IF a.k = "nan" \/ b.k = "nan" THEN NaN
    ELSE IF a.k = "+inf" \/ b.k = "+inf" THEN pos_infty
    ELSE Num(a.v + b.v)
\* the product of two non-negative values counted in units of 2^-FracBits
mul(a, b) ==
    IF a.k = "nan" \/ b.k = "nan" THEN NaN
    ELSE IF a.k = "+inf" \/ b.k = "+inf"
         THEN IF a = Num(0) \/ b = Num(0) THEN NaN ELSE pos_infty
    ELSE Num((a.v \div FracUnit) * b.v + ((a.v % FracUnit) * b.v) \div FracUnit)
\* a / b, both non-negative and counted in units of 2^-FracBits
div(a, b) ==
    IF a.k = "nan" \/ b.k = "nan" THEN NaN
    ELSE IF a.k = "+inf" THEN (IF b.k = "+inf" THEN NaN ELSE pos_infty)
    ELSE IF b.k = "+inf" THEN Num(0)
    ELSE IF b.v = 0 THEN (IF a.v = 0 THEN NaN ELSE pos_infty)
    ELSE LET r1 == (a.v % b.v) * HalfUnit
             r2 == (r1 % b.v) * HalfUnit
         IN  Num((a.v \div b.v) * FracUnit + (r1 \div b.v) * HalfUnit + r2 \div b.v)
\* the sum of n[1] copies of n[2] * n[3], over the tuples n of a set
RECURSIVE SumOf(_)
SumOf(S) ==
    IF S = {} THEN Num(0)
    ELSE LET n == CHOOSE n \in S : TRUE
         IN  add(mul_const(n[2], n[1] * n[3]), SumOf(S \ {n}))

\* The factor applied to the scores: in the quantized build
\* scale_q * scale_k times the constant, before the mask (lines 207-210,
\* 249); otherwise the constant, after row_max (lines 290-301).
ScoreScale == IF is_fp8 THEN scale * SoftmaxScale(D) ELSE SoftmaxScale(D)
\* The running maximum in the units of the exponent: row_max sees scaled
\* scores in the quantized build and unscaled ones otherwise.
ScaledMaxMutUnscaled(m) == m
ScaledMax(m) == IF is_fp8 THEN m ELSE mul_const(m, SoftmaxScale(D))

\* Entry (r, c) of att_block as row_max reads it.
AttScore(r, c) ==
    IF att_block[r][c] = "neg_inf" THEN neg_infty
    ELSE Num(Score(QueryRow(r), KeyPos(m_kv_idx, c)) * (IF is_fp8 THEN ScoreScale ELSE 1))
\* An entry x after sub_row and exp2 against the row maximum m (lines
\* 277-278, 303-304).
AttExp(x, m) ==
    exp2(sub(IF is_fp8 THEN x ELSE mul_const(x, SoftmaxScale(D)), ScaledMax(m)))

RECURSIVE MaxOf(_)
MaxOf(S) ==
    IF S = {} THEN neg_infty
    ELSE LET x == CHOOSE x \in S : TRUE IN fmax(x, MaxOf(S \ {x}))
row_max(r) == fmax(MaxOf({AttScore(r, c) : c \in Cols(D)}), max_vec[r])
\* The entries of a row as a bag: each distinct entry with the number of
\* columns that hold it.
BagOfRow(S) == {<<x, Cardinality({y \in S : y[2] = x})>> : x \in {y[2] : y \in S}}
row_sum(r) ==
    SumOf({<<b[2], AttExp(b[1], max_vec[r]), 1, b[1]>> :
               b \in BagOfRow({<<c, AttScore(r, c)>> : c \in Cols(D)})})
\* one column of att_block_mma * v_smem (mma_AB, line 318)
mma_AB(r) ==
    SumOf({<<b[2], AttExp(b[1][1], max_vec[r]), b[1][2], b[1]>> :
               b \in BagOfRow({<<c, <<AttScore(r, c), VColumn(KeyPos(m_kv_idx, c))>>>> :
                                   c \in Cols(D)})})

\* What one consumer warp is started with.
MaskEntry ==
    /\ D \in HeadDims
    /\ is_causal \in BOOLEAN
    /\ blockIdx \in [x : 0..(NumMBlocks(seq_len_q, D) - 1), y : {0}, z : {0}]
    /\ warpid \in ConsumerWarps(D)
    /\ mpc = "entry"
    /\ m_kv_idx = 0
    /\ m_kv_iters = 0
    /\ att_block = <<>>
    /\ max_vec = <<>> /\ norm_vec = <<>> /\ o_reg = <<>> /\ max_vec_last = <<>>
    /\ KernelIdle
    /\ HostArgsIdle
    /\ LoaderIdle

\* For the masks the scores do not matter: one build, one pattern.
MaskInit ==
    /\ seq_len_q \in SeqLens
    /\ g \in [N : SeqLens, hr : {1}]
    /\ is_fp8 = FALSE /\ scale = 1 /\ score_pattern = 0
    /\ MaskEntry

\* For the softmax: both builds, every pattern, the longest query
\* sequence, and key sequences that end after one position, one position
\* into their last tile, and on a tile boundary.
SoftmaxSeqLens == {1, 64 * MaxSeqBlocks - 63, 64 * MaxSeqBlocks}
SoftmaxInit ==
    /\ seq_len_q = 64 * MaxSeqBlocks
    /\ g \in [N : SoftmaxSeqLens, hr : {1}]
    /\ is_fp8 \in BOOLEAN
    /\ scale \in (IF is_fp8 THEN QuantScales ELSE {1})
    /\ score_pattern \in ScorePatterns
    /\ MaskEntry

(***************************************************************************)
(* The masks of the warp: what is in att_block when row_max reads it.      *)
(***************************************************************************)
\* The warp computes its loop bound and enters the loop (lines 219-228).
MaskEnter ==
    /\ mpc = "entry"
    /\ m_kv_iters' = ConsumerKvIters
    /\ m_kv_idx' = 0
    /\ mpc' = IF 0 <= ConsumerKvIters THEN "mm_qk" ELSE "done"
    /\ UNCHANGED <<kvars, hvars, lvars, seq_len_q, warpid, att_block, score_pattern, scale,
                   softvars>>

\* mm_ABt writes the block of raw scores (line 233).
MaskMatmul ==
    /\ mpc = "mm_qk"
    /\ att_block' = [r \in Rows |-> [c \in Cols(D) |-> "raw"]]
    /\ mpc' = "mask"
    /\ UNCHANGED <<kvars, hvars, lvars, seq_len_q, warpid, m_kv_idx, m_kv_iters,
                   score_pattern, scale, softvars>>

\* The masking branch of the specialization (lines 252-272).
MaskApply ==
    /\ mpc = "mask"
    /\ att_block' = IF is_causal THEN CausalMask(att_block, m_kv_idx, m_kv_iters)
                                 ELSE RaggedMask(att_block, m_kv_idx, m_kv_iters)
    /\ mpc' = "row_max"
    /\ UNCHANGED <<kvars, hvars, lvars, seq_len_q, warpid, m_kv_idx, m_kv_iters,
                   score_pattern, scale, softvars>>

\* row_max and the rest of the iteration consume the block; next tile.
MaskRowMax ==
    /\ mpc = "row_max"
    /\ m_kv_idx' = m_kv_idx + 1
    /\ mpc' = IF m_kv_idx + 1 <= m_kv_iters THEN "mm_qk" ELSE "done"
    /\ UNCHANGED <<kvars, hvars, lvars, seq_len_q, warpid, m_kv_iters, att_block,
                   score_pattern, scale, softvars>>

MaskNext == MaskEnter \/ MaskMatmul \/ MaskApply \/ MaskRowMax

MaskSpec == MaskInit /\ [][MaskNext]_vars

(***************************************************************************)
(* The softmax of the warp: the same loop with the numbers in it.          *)
(***************************************************************************)
\* The warp clears its softmax state (lines 215-217), computes its loop
\* bound and enters the loop (lines 219-228).
SoftmaxEnter ==
    /\ mpc = "entry"
    /\ max_vec' = [r \in Rows |-> neg_infty]
    /\ norm_vec' = [r \in Rows |-> Num(0)]
    /\ o_reg' = [r \in Rows |-> Num(0)]
    /\ m_kv_iters' = ConsumerKvIters
    /\ m_kv_idx' = 0
    /\ mpc' = IF 0 <= ConsumerKvIters THEN "mm_qk" ELSE "normalize"
    /\ UNCHANGED <<kvars, hvars, lvars, seq_len_q, warpid, att_block, score_pattern, scale,
                   max_vec_last>>

\* mm_ABt writes the block of raw scores (line 233); the running maximum
\* is saved in the units of the exponent (lines 235-241).
SoftmaxMatmul ==
    /\ mpc = "mm_qk"
    /\ att_block' = [r \in Rows |-> [c \in Cols(D) |-> "raw"]]
    /\ max_vec_last' = [r \in Rows |-> ScaledMax(max_vec[r])]
    /\ mpc' = "mask"
    /\ UNCHANGED <<kvars, hvars, lvars, seq_len_q, warpid, m_kv_idx, m_kv_iters,
                   score_pattern, scale, max_vec, norm_vec, o_reg>>

\* row_max updates the running maximum; the saved maximum becomes
\* exp2(saved - new) and the normalizer is multiplied by it (lines
\* 274-283, 289-309).  att_block is exponentiated against the new maximum.
SoftmaxRowMax ==
    /\ mpc = "row_max"
    /\ max_vec' = [r \in Rows |-> row_max(r)]
    /\ max_vec_last' = [r \in Rows |->
           exp2(sub(max_vec_last[r], ScaledMax(max_vec'[r])))]
    /\ norm_vec' = [r \in Rows |-> mul(norm_vec[r], max_vec_last'[r])]
    /\ mpc' = "row_sum"
    /\ UNCHANGED <<kvars, hvars, lvars, seq_len_q, warpid, m_kv_idx, m_kv_iters, att_block,
                   score_pattern, scale, o_reg>>

\* row_sum adds the exponentiated scores of the tile to the normalizer;
\* the accumulator is multiplied by the saved factor (lines 284-287,
\* 310-313).
SoftmaxRowSum ==
    /\ mpc = "row_sum"
    /\ norm_vec' = [r \in Rows |-> add(norm_vec[r], row_sum(r))]
    /\ o_reg' = [r \in Rows |-> mul(o_reg[r], max_vec_last[r])]
    /\ mpc' = "mma_pv"
    /\ UNCHANGED <<kvars, hvars, lvars, seq_len_q, warpid, m_kv_idx, m_kv_iters, att_block,
                   score_pattern, scale, max_vec, max_vec_last>>

\* mma_AB adds P * V to the accumulator (lines 316-319); next tile.
SoftmaxPV ==
    /\ mpc = "mma_pv"
    /\ o_reg' = [r \in Rows |-> add(o_reg[r], mma_AB(r))]
    /\ m_kv_idx' = m_kv_idx + 1
    /\ mpc' = IF m_kv_idx + 1 <= m_kv_iters THEN "mm_qk" ELSE "normalize"
    /\ UNCHANGED <<kvars, hvars, lvars, seq_len_q, warpid, m_kv_iters, att_block,
                   score_pattern, scale, max_vec, norm_vec, max_vec_last>>

\* div_row divides the accumulator by the normalizer (line 324).
SoftmaxNormalize ==
    /\ mpc = "normalize"
    /\ o_reg' = [r \in Rows |-> div(o_reg[r], norm_vec[r])]
    /\ mpc' = "done"
    /\ UNCHANGED <<kvars, hvars, lvars, seq_len_q, warpid, m_kv_idx, m_kv_iters, att_block,
                   score_pattern, scale, max_vec, norm_vec, max_vec_last>>

SoftmaxNext ==
    \/ SoftmaxEnter \/ SoftmaxMatmul \/ MaskApply
    \/ SoftmaxRowMax \/ SoftmaxRowSum \/ SoftmaxPV \/ SoftmaxNormalize

SoftmaxSpec == SoftmaxInit /\ [][SoftmaxNext]_vars

(***************************************************************************)
(* Claims about masking.                                                   *)
(***************************************************************************)
\* C4: in causal mode no score whose key position exceeds its query row
\* reaches row_max unmasked, and a tile processed before the last two
\* iterations (where no mask test runs) holds only keys at positions up to
\* the smallest query row of the unit.
C4_CausalNoFuture ==
    (is_causal /\ mpc = "row_max") =>
        /\ \A r \in Rows : \A c \in Cols(D) :
               KeyPos(m_kv_idx, c) > QueryRow(r) => att_block[r][c] = "neg_inf"
        /\ m_kv_idx < m_kv_iters - 1 =>
               KeyPos(m_kv_idx, kv_height(D) - 1) <= seq_idx * qo_height(D)

\* C4 witness: a causal warp of a later unit is at its diagonal tile,
\* part masked and part not, having processed earlier tiles untested.
C4_Witness ==
    /\ is_causal /\ mpc = "row_max" /\ blockIdx.x >= 1
    /\ m_kv_idx >= 2
    /\ \E r \in Rows : \E c1, c2 \in Cols(D) :
          att_block[r][c1] = "neg_inf" /\ att_block[r][c2] = "raw"

\* C5: every key position at or beyond seq_kv inside a processed tile is
\* minus infinity, for every query row below seq_q, when row_max runs.
C5_BeyondSeqKvMasked ==
    mpc = "row_max" =>
        \A r \in Rows : \A c \in Cols(D) :
            (QueryRow(r) < seq_len_q /\ KeyPos(m_kv_idx, c) >= g.N)
                => att_block[r][c] = "neg_inf"

\* C12: in causal mode every score of a query row below seq_q whose key
\* position is at most the row and below seq_kv reaches row_max unmasked,
\* the diagonal included, and lies in a tile the warp processes; query row
\* 0 sees key 0 and nothing else.
C12_CausalKeepsPast ==
    is_causal =>
        /\ mpc = "row_max" =>
               \A r \in Rows : \A c \in Cols(D) :
                   (/\ QueryRow(r) < seq_len_q
                    /\ KeyPos(m_kv_idx, c) <= QueryRow(r)
                    /\ KeyPos(m_kv_idx, c) < g.N) => att_block[r][c] = "raw"
        /\ (mpc = "row_max" /\ QueryRow(0) = 0) =>
               \A c \in Cols(D) :
                   att_block[0][c] = "raw" <=> KeyPos(m_kv_idx, c) = 0
        /\ mpc = "done" =>
               \A r \in Rows : \A j \in 0..(g.N - 1) :
                   (QueryRow(r) < seq_len_q /\ j <= QueryRow(r))
                       => j < (m_kv_iters + 1) * kv_height(D)

\* C12 witness: the warp that owns query row 0 is at row_max of tile 0
\* with key 0 visible and key 1 masked, and a lower row of the same block
\* sees its diagonal.
C12_Witness ==
    /\ is_causal /\ mpc = "row_max" /\ m_kv_idx = 0 /\ QueryRow(0) = 0
    /\ att_block[0][0] = "raw" /\ att_block[0][1] = "neg_inf"
    /\ att_block[TILE_ROW_DIM - 1][TILE_ROW_DIM - 1] = "raw"

\* C15: the output matches the full-matrix softmax reference.  The
\* streaming update weighs every score that is not minus infinity at
\* row_max and no other, so for every query row below seq_q the unmasked
\* scores of each processed tile must be exactly the keys the reference
\* attends to (below seq_kv and, in causal mode, at most the row), and
\* the processed tiles must cover all of them.
C15_MatchesReference ==
    /\ mpc = "row_max" =>
           \A r \in Rows : \A c \in Cols(D) :
               QueryRow(r) < seq_len_q =>
                   (att_block[r][c] = "raw" <=>
                       (/\ KeyPos(m_kv_idx, c) < g.N
                        /\ is_causal => KeyPos(m_kv_idx, c) <= QueryRow(r)))
    /\ mpc = "done" =>
           \A r \in Rows : \A j \in 0..(g.N - 1) :
               (QueryRow(r) < seq_len_q /\ (is_causal => j <= QueryRow(r)))
                   => j < (m_kv_iters + 1) * kv_height(D)

\* C22: in non-causal mode a score is masked exactly when the tile is the
\* final one (kv_idx = kv_iters), seq_kv is not a multiple of kv_height and
\* the in-tile column is at least seq_kv mod kv_height; so every key
\* position below seq_kv reaches row_max unmasked, the processed tiles
\* cover all of them, and a seq_kv that is a multiple of kv_height masks
\* nothing.
C22_RaggedOnlyLastTile ==
    ~is_causal =>
        /\ mpc = "row_max" =>
               /\ \A r \in Rows : \A c \in Cols(D) :
                      /\ att_block[r][c] = "neg_inf" <=>
                             (/\ m_kv_idx = m_kv_iters
                              /\ g.N % kv_height(D) # 0
                              /\ c >= g.N % kv_height(D))
                      /\ KeyPos(m_kv_idx, c) < g.N => att_block[r][c] = "raw"
               /\ g.N % kv_height(D) = 0 =>
                      \A r \in Rows : \A c \in Cols(D) : att_block[r][c] = "raw"
        /\ mpc = "done" => g.N <= (m_kv_iters + 1) * kv_height(D)

\* C22 witness: a non-causal warp at row_max of the final tile of a
\* sequence that ends inside the tile, after an earlier, untouched tile:
\* the last valid column is kept and the next one is masked.
C22_Witness ==
    /\ ~is_causal /\ mpc = "row_max"
    /\ m_kv_idx = m_kv_iters /\ m_kv_idx >= 1
    /\ g.N % kv_height(D) # 0
    /\ att_block[0][(g.N % kv_height(D)) - 1] = "raw"
    /\ att_block[0][g.N % kv_height(D)] = "neg_inf"

(***************************************************************************)
(* Claims about the softmax.                                               *)
(***************************************************************************)
\* C21: in both builds the step that updates the running maximum of a row
\* multiplies its normalizer by exp2(old maximum - new maximum), both in
\* the units of the exponent, before the row sum of the tile is added; the
\* accumulator is multiplied by that same factor before P*V is added; and
\* the maximum never decreases.  So the two end as sums over one and the
\* same maximum: when the loop has ended, the normalizer is the sum of
\* exp2(score - maximum) over the unmasked scores of the tiles of the
\* row, the accumulator that sum weighted with V, and the maximum is the
\* largest of these scores.
C21_ConsistentRescale ==
    [][ LET Raw == [r \in Rows |-> [c \in Cols(D) |-> "raw"]]
            Block(kv_idx) == IF is_causal THEN CausalMask(Raw, kv_idx, m_kv_iters)
                                          ELSE RaggedMask(Raw, kv_idx, m_kv_iters)
            \* the unmasked scores of row r in the first n tiles of blks
            Entries(blks, r, n) ==
                {<<x[1], x[2], ScoreScale * Score(QueryRow(r), KeyPos(x[1], x[2])),
                   VColumn(KeyPos(x[1], x[2]))>> :
                     x \in {y \in (0..(n - 1)) \X Cols(D) : blks[y[1]][r][y[2]] = "raw"}}
            Largest(E) == SetMax({e[3] : e \in E})
            Weighted(E, m, withV) ==
                SumOf({<<Cardinality({e \in E : e[3] = sv[1] /\ e[4] = sv[2]}),
                         exp2(Num(sv[1] - m)), IF withV THEN sv[2] ELSE 1, sv>> :
                           sv \in {<<e[3], e[4]>> : e \in E}})
            Closed(E, r) ==
                E # {} =>
                    /\ ScaledMax(max_vec'[r]) = Num(Largest(E))
                    /\ norm_vec'[r] = Weighted(E, Largest(E), FALSE)
                    /\ o_reg'[r] = Weighted(E, Largest(E), TRUE)
        IN  /\ mpc \in {"mm_qk", "mask", "row_max", "row_sum", "mma_pv"} =>
                   \A r \in Rows :
                       \/ max_vec[r].k = "-inf"
                       \/ /\ max_vec[r].k = "num" /\ max_vec'[r].k = "num"
                          /\ max_vec[r].v <= max_vec'[r].v
            /\ mpc = "row_max" =>
                   \A r \in Rows :
                       LET correction ==
                               exp2(sub(ScaledMax(max_vec[r]), ScaledMax(max_vec'[r])))
                       IN  /\ max_vec_last'[r] = correction
                           /\ norm_vec'[r] = mul(norm_vec[r], correction)
                           /\ o_reg'[r] = o_reg[r]
            /\ mpc = "row_sum" =>
                   /\ max_vec' = max_vec
                   /\ \A r \in Rows : o_reg'[r] = mul(o_reg[r], max_vec_last[r])
            /\ mpc = "mma_pv" => max_vec' = max_vec /\ norm_vec' = norm_vec
            /\ mpc' = "normalize" =>
                   \A blks \in {[kv_idx \in 0..m_kv_iters |-> Block(kv_idx)]} :
                       \A r \in Rows : Closed(Entries(blks, r, m_kv_iters + 1), r)
      ]_vars

\* C21 witness: in the quantized build, before the row sum of a later tile
\* is added, the maximum of a row has risen and its normalizer has been
\* scaled down by a factor below one, while another row of the warp kept
\* its maximum and its normalizer.
C21_Witness ==
    /\ is_fp8 /\ mpc = "row_sum" /\ m_kv_idx >= 1
    /\ \E r1, r2 \in Rows :
          /\ max_vec_last[r1].k = "num"
          /\ 0 < max_vec_last[r1].v /\ max_vec_last[r1].v < FracUnit
          /\ norm_vec[r1].v > 0
          /\ max_vec_last[r2] = Num(FracUnit)

\* C23: in every specialization, causal or not, every row of the warp
\* has an unmasked key in tile 0 when row_max reads it; from that row_max
\* on the running maximum of every row is finite; a tile that is fully
\* masked for a row leaves the normalizer of the row as it is; and the
\* normalizer div_row divides by is a positive number.
C23_NormalizerNonzero ==
    [][ /\ (mpc' = "row_max" /\ m_kv_idx' = 0) =>
               \A r \in Rows : \E c \in Cols(D) : att_block'[r][c] = "raw"
        /\ (mpc' \in {"row_sum", "mma_pv", "normalize", "done"} \/ m_kv_idx' >= 1) =>
               \A r \in Rows : max_vec'[r].k = "num"
        /\ mpc = "row_sum" =>
               \A r \in Rows :
                   (\A c \in Cols(D) : att_block[r][c] = "neg_inf")
                       => norm_vec'[r] = norm_vec[r]
        /\ mpc' = "normalize" =>
               \A r \in Rows : norm_vec'[r].k = "num" /\ norm_vec'[r].v > 0
        /\ mpc' = "done" => \A r \in Rows : o_reg'[r].k = "num"
      ]_vars

\* C23 witness: the row sum of a later tile has been added, the tile
\* being fully masked for the first and the last row of the warp, whose
\* normalizers are positive and were scaled by the factor one.
C23_Witness ==
    /\ mpc = "mma_pv" /\ m_kv_idx >= 1
    /\ \A r \in {0, TILE_ROW_DIM - 1} :
          /\ \A c \in Cols(D) : att_block[r][c] = "neg_inf"
          /\ norm_vec[r].k = "num" /\ norm_vec[r].v > 0
          /\ max_vec_last[r] = Num(FracUnit)

(***************************************************************************)
(* Host launcher attention_forward (lines 355-647).  A tensor is described *)
(* by what the checks read: is_cuda, device, sizes and, for the scale      *)
(* tensors, dtype.                                                         *)
(***************************************************************************)
MaxBatch == 2
MaxHeads == 4

\* Head dimensions tried by the host model: the three with a kernel
\* specialization and one without.
HostHeadDims == HeadDims \cup {32}

Tensor(sizes) == [is_cuda |-> TRUE, device |-> 0, sizes |-> sizes]
ScaleTensor(sizes) ==
    [is_cuda |-> TRUE, device |-> 0, dtype |-> "float32", sizes |-> sizes]

\* Ways in which the arguments of a call can be wrong, one at a time.
Defects ==
    {"none", "q_cpu", "k_device", "v_device", "k_rank", "v_rank",
     "k_batch", "v_seq", "k_dim", "v_heads",
     "scale_q_dtype", "scale_k_rank", "scale_q_batch", "scale_k_heads"}

dim(t) == Len(t.sizes)
size(t, i) == t.sizes[i + 1]

HostInit ==
    /\ \E batch \in 1..MaxBatch, qo_heads \in 1..MaxHeads, kv_heads \in 1..MaxHeads,
          seq_q \in SeqLens, seq_kv \in {1, 64 * MaxSeqBlocks},
          head_dim \in HostHeadDims, defect \in Defects :
          /\ q = [Tensor(<<batch, qo_heads, seq_q, head_dim>>) EXCEPT
                    !.is_cuda = (defect # "q_cpu")]
          /\ k = [Tensor(IF defect = "k_rank" THEN <<batch, kv_heads, seq_kv, head_dim, 1>>
                          ELSE <<IF defect = "k_batch" THEN batch + 1 ELSE batch,
                                 kv_heads, seq_kv,
                                 IF defect = "k_dim" THEN 2 * head_dim ELSE head_dim>>) EXCEPT
                    !.device = IF defect = "k_device" THEN 1 ELSE 0]
          /\ v = [Tensor(IF defect = "v_rank" THEN <<batch, kv_heads, seq_kv>>
                          ELSE <<batch,
                                 IF defect = "v_heads" THEN kv_heads + 1 ELSE kv_heads,
                                 IF defect = "v_seq" THEN seq_kv + 1 ELSE seq_kv,
                                 head_dim>>) EXCEPT
                    !.device = IF defect = "v_device" THEN 1 ELSE 0]
          /\ is_fp8 \in BOOLEAN
          /\ scale_q = IF is_fp8
                THEN [ScaleTensor(<<IF defect = "scale_q_batch" THEN batch + 1 ELSE batch,
                                    qo_heads>>) EXCEPT
                        !.dtype = IF defect = "scale_q_dtype" THEN "float16" ELSE "float32"]
                ELSE NoTensor
          /\ scale_k = IF is_fp8
                THEN ScaleTensor(IF defect = "scale_k_rank" THEN <<batch>>
                                 ELSE <<batch,
                                        IF defect = "scale_k_heads" THEN kv_heads + 1
                                                                    ELSE kv_heads>>)
                ELSE NoTensor
    /\ causal \in BOOLEAN
    /\ hpc = "check"
    /\ o = "none"
    /\ launch = <<>>
    /\ ConfigIdle
    /\ KernelIdle
    /\ MaskIdle
    /\ LoaderIdle

\* CHECK_CUDA and TORCH_CHECK, in the order of lines 362-415.  The checks
\* that compare a size with the local it was just read into always pass.
ValidationOK ==
    /\ q.is_cuda /\ k.is_cuda /\ v.is_cuda
    /\ is_fp8 => (scale_q.is_cuda /\ scale_k.is_cuda)
    /\ q.device = k.device
    /\ q.device = v.device
    /\ dim(q) = 4 /\ dim(k) = 4 /\ dim(v) = 4
    /\ LET batch == size(q, 0)
           seq_len_kv == size(k, 2)
           head_dim == size(q, 3)
           qo_heads == size(q, 1)
           kv_heads == size(k, 1)
       IN  /\ size(k, 0) = batch /\ size(v, 0) = batch
           /\ size(v, 2) = seq_len_kv
           /\ size(k, 3) = head_dim /\ size(v, 3) = head_dim
           /\ qo_heads >= kv_heads
           /\ qo_heads % kv_heads = 0
           /\ size(v, 1) = kv_heads
           /\ is_fp8 =>
                 /\ scale_q.dtype = "float32" /\ scale_k.dtype = "float32"
                 /\ dim(scale_q) = 2 /\ dim(scale_k) = 2
                 /\ size(scale_q, 0) = batch /\ size(scale_k, 0) = batch
                 /\ size(scale_q, 1) = qo_heads /\ size(scale_k, 1) = kv_heads

\* kv_head_idx of a unit (line 126).
KvHeadIdxMutMod(y, hr) == y % hr
KvHeadIdx(y, hr) == y \div hr

\* Flat offsets into the contiguous scale buffers (lines 204-205).
ScaleQOffset(c, gridDim) == c.z * gridDim.y + c.y
ScaleKOffset(c, gridDim) == c.z * gridDim.y + c.y

\* What the unit at grid cell c reads and writes, by tensor coordinates.
Unit(c, d, gridDim, gg) ==
    [kv_head_idx |-> KvHeadIdx(c.y, gg.hr),
     kv_tile_idx |-> [z |-> c.z, head |-> KvHeadIdx(c.y, gg.hr)],
     scale_q_offset |-> IF is_fp8 THEN ScaleQOffset(c, gridDim) ELSE -1,
     scale_k_offset |-> IF is_fp8 THEN ScaleKOffset(c, gridDim) ELSE -1,
     q_tile_idx |-> [wg \in 0..(CONSUMER_WARPGROUPS(d) - 1) |->
                        [z |-> c.z, y |-> c.y, tile |-> SeqIdx(c.x, d) + wg]],
     o_tile_idx |-> [wg \in 0..(CONSUMER_WARPGROUPS(d) - 1) |->
                        [z |-> c.z, y |-> c.y, tile |-> SeqIdx(c.x, d) + wg]]]

GridCells(gridDim) ==
    [x : 0..(gridDim.x - 1), y : 0..(gridDim.y - 1), z : 0..(gridDim.z - 1)]

HostCheckPassMutNoCheck ==
    /\ hpc = "check"
    /\ hpc' = "alloc"
    /\ UNCHANGED <<kvars, mvars, lvars, is_fp8, q, k, v, scale_q, scale_k, causal, o, launch>>

HostCheckPass ==
    /\ hpc = "check"
    /\ ValidationOK
    /\ hpc' = "alloc"
    /\ UNCHANGED <<kvars, mvars, lvars, is_fp8, q, k, v, scale_q, scale_k, causal, o, launch>>

HostCheckFail ==
    /\ hpc = "check"
    /\ ~ValidationOK
    /\ hpc' = "error"
    /\ UNCHANGED <<kvars, mvars, lvars, is_fp8, q, k, v, scale_q, scale_k, causal, o, launch>>

\* torch::empty: the output exists, its contents are unspecified.
HostAlloc ==
    /\ hpc = "alloc"
    /\ o' = "empty"
    /\ hpc' = "dispatch"
    /\ UNCHANGED <<kvars, mvars, lvars, is_fp8, q, k, v, scale_q, scale_k, causal, launch>>

\* One of the three "if (head_dim == ...)" blocks launches its kernel.
HostLaunch ==
    /\ hpc = "dispatch"
    /\ size(q, 3) \in HeadDims
    /\ LET head_dim == size(q, 3)
           gridDim == [x |-> NumMBlocks(size(q, 2), head_dim),
                       y |-> size(q, 1), z |-> size(q, 0)]
           gg == [N |-> size(k, 2), hr |-> size(q, 1) \div size(k, 1)]
       IN  launch' = <<[D |-> head_dim, is_causal |-> causal, gridDim |-> gridDim, g |-> gg,
                        units |-> [c \in GridCells(gridDim) |->
                                      Unit(c, head_dim, gridDim, gg)]]>>
    /\ hpc' = "launch_check"
    /\ UNCHANGED <<kvars, mvars, lvars, is_fp8, q, k, v, scale_q, scale_k, causal, o>>

\* None of the three blocks matches head_dim: nothing is launched.
HostNoKernel ==
    /\ hpc = "dispatch"
    /\ size(q, 3) \notin HeadDims
    /\ hpc' = "launch_check"
    /\ UNCHANGED <<kvars, mvars, lvars, is_fp8, q, k, v, scale_q, scale_k, causal, o, launch>>

\* C10_CUDA_KERNEL_LAUNCH_CHECK finds no launch error; return {o}.
HostReturn ==
    /\ hpc = "launch_check"
    /\ hpc' = "returned"
    /\ UNCHANGED <<kvars, mvars, lvars, is_fp8, q, k, v, scale_q, scale_k, causal, o, launch>>

\* The kernel launches of the call so far: none, or one.
Launched == launch # <<>>

HostNext ==
    \/ HostCheckPass \/ HostCheckFail \/ HostAlloc
    \/ HostLaunch \/ HostNoKernel \/ HostReturn

HostSpec == HostInit /\ [][HostNext]_vars

(***************************************************************************)
(* Claims about the launcher and the work partition.                       *)
(***************************************************************************)
\* Offset of element [b][h] of a contiguous rank-2 tensor.
FlatOffset(t, b, h) == b * size(t, 1) + h
NumElements(t) == size(t, 0) * size(t, 1)

\* C6: in the quantized variant the unit of batch b and query head h reads
\* scale_q[b][h] and scale_k[b][h div hr], both inside their tensors.
C6_ScaleOfLoadedHead ==
    (Launched /\ is_fp8) =>
        \A c \in DOMAIN launch[1].units :
            LET u == launch[1].units[c]
                hr == size(q, 1) \div size(k, 1)
            IN  /\ u.scale_q_offset = FlatOffset(scale_q, c.z, c.y)
                /\ u.scale_k_offset = FlatOffset(scale_k, c.z, c.y \div hr)
                /\ u.scale_q_offset \in 0..(NumElements(scale_q) - 1)
                /\ u.scale_k_offset \in 0..(NumElements(scale_k) - 1)

\* C7: a call never returns an output tensor unless the head dimension is
\* one of 64, 128, 256 and a kernel was launched on the output.
C7_UnsupportedHeadDimFails ==
    hpc = "returned" => (size(q, 3) \in HeadDims /\ Launched)

\* C8: the key/value head of the unit of query head h is h div hr, it is a
\* head of K/V, and key/value head j serves exactly the hr consecutive
\* query heads j*hr .. j*hr + hr - 1.
C8_SharedKvHead ==
    Launched =>
        LET U == launch[1].units
            qo_heads == size(q, 1)
            kv_heads == size(k, 1)
            hr == qo_heads \div kv_heads
        IN  /\ \A c \in DOMAIN U :
                   /\ U[c].kv_head_idx = c.y \div hr
                   /\ U[c].kv_head_idx \in 0..(kv_heads - 1)
                   /\ U[c].kv_tile_idx = [z |-> c.z, head |-> c.y \div hr]
            /\ \A j \in 0..(kv_heads - 1) :
                   {c.y : c \in {c2 \in DOMAIN U : U[c2].kv_head_idx = j}}
                       = (j * hr)..(j * hr + hr - 1)

\* C8 witness: a launch with several groups of several query heads.
C8_Witness ==
    /\ Launched
    /\ size(k, 1) >= 2
    /\ size(q, 1) \div size(k, 1) >= 2

\* C10: the grid is (ceil(seq_q / (CW*qo_height)), qo_heads, batch),
\* consumer wg of cell (x, h, b) owns query tile x*CW + wg, every
\* (batch, head, tile) with tile < ceil(seq_q / qo_height) has exactly one
\* owner, and no two consumers store to the same output tile.
C10_TileOwnership ==
    Launched =>
        LET U == launch[1].units
            d == launch[1].D
            cw == IF d = 256 THEN 2 ELSE 3
            batch == size(q, 0)
            qo_heads == size(q, 1)
            seq_q == size(q, 2)
            n_tiles == -((-seq_q) \div 64)
            Owner == (DOMAIN U) \X (0..(cw - 1))
            StoredBy(p) == U[p[1]].o_tile_idx[p[2]]
        IN  /\ launch[1].gridDim =
                   [x |-> -((-seq_q) \div (cw * 64)), y |-> qo_heads, z |-> batch]
            /\ \A p \in Owner :
                   /\ StoredBy(p) = [z |-> p[1].z, y |-> p[1].y, tile |-> p[1].x * cw + p[2]]
                   /\ U[p[1]].q_tile_idx[p[2]] = StoredBy(p)
            /\ \A b \in 0..(batch - 1), h \in 0..(qo_heads - 1), t \in 0..(n_tiles - 1) :
                   Cardinality({p \in Owner : StoredBy(p) = [z |-> b, y |-> h, tile |-> t]}) = 1
            /\ \A p1, p2 \in Owner : StoredBy(p1) = StoredBy(p2) => p1 = p2

\* C10 witness: a launch of several cells along the sequence whose last
\* cell has consumers past the end of Q.
C10_Witness ==
    /\ Launched
    /\ launch[1].gridDim.x >= 2
    /\ launch[1].gridDim.x * (IF launch[1].D = 256 THEN 2 ELSE 3) * 64 >= size(q, 2) + 64

\* C13: a call with a non-CUDA tensor, Q/K or Q/V on different devices, a
\* rank other than 4, a batch, sequence or feature size mismatch, query
\* heads fewer than or not a multiple of key/value heads, or (quantized) a
\* scale tensor that is not CUDA float32 of shape (batch, heads), never
\* gets past the checks; a failed call has allocated no output and
\* launched no kernel.
C13_FailBeforeAlloc ==
    LET bad_qkv ==
            \/ ~q.is_cuda \/ ~k.is_cuda \/ ~v.is_cuda
            \/ q.device # k.device \/ q.device # v.device
            \/ dim(q) # 4 \/ dim(k) # 4 \/ dim(v) # 4
            \/ size(k, 0) # size(q, 0) \/ size(v, 0) # size(q, 0)
            \/ size(v, 2) # size(k, 2)
            \/ size(k, 3) # size(q, 3) \/ size(v, 3) # size(q, 3)
            \/ size(v, 1) # size(k, 1)
            \/ size(q, 1) < size(k, 1)
            \/ size(q, 1) % size(k, 1) # 0
        bad_scale ==
            is_fp8 /\
                (\/ ~scale_q.is_cuda \/ ~scale_k.is_cuda
                 \/ scale_q.dtype # "float32" \/ scale_k.dtype # "float32"
                 \/ dim(scale_q) # 2 \/ dim(scale_k) # 2
                 \/ scale_q.sizes # <<size(q, 0), size(q, 1)>>
                 \/ scale_k.sizes # <<size(q, 0), size(k, 1)>>)
    IN  /\ (bad_qkv \/ bad_scale) =>
               (hpc \in {"check", "error"} /\ o = "none" /\ ~Launched)
        /\ hpc = "error" => (o = "none" /\ ~Launched)

\* C13 witness: a quantized call whose Q, K and V are fine has failed on
\* the rank of its K scale.
C13_Witness ==
    /\ hpc = "error" /\ is_fp8
    /\ dim(scale_k) # 2
    /\ dim(k) = 4 /\ dim(v) = 4 /\ q.device = k.device /\ q.device = v.device

(***************************************************************************)
(* load_tk_attention_module(dtype, is_fp8), lines 651-708, called from     *)
(* Python threads.  A thread can be switched out between any two           *)
(* statements; load_inline runs a build and does not touch the variable.   *)
(***************************************************************************)
Dtypes == {"float16", "bfloat16", "float32"}
SupportedDtypes == {"float16", "bfloat16"}
ArchLists == {NotSet, "8.0", "9.0a"}

LoaderInit ==
    /\ TORCH_CUDA_ARCH_LIST \in ArchLists
    /\ arch_list_before = TORCH_CUDA_ARCH_LIST
    /\ cache = {} /\ builds = <<>>
    /\ lpc = [t \in LoaderThreads |-> "idle"]
    /\ call_args \in [LoaderThreads -> Dtypes \X BOOLEAN]
    /\ old_torch_cuda_arch_list = [t \in LoaderThreads |-> NotSet]
    /\ module = [t \in LoaderThreads |-> "unbound"]
    /\ exc = [t \in LoaderThreads |-> "none"]
    /\ ConfigIdle
    /\ KernelIdle
    /\ MaskIdle
    /\ HostIdle

\* The extension name load_inline is called with (line 688).
ExtensionName(args) ==
    <<"quantum_attn_tk_attention", args[1], args[2]>>

\* functools.cache (line 651): a call whose arguments have a cached
\* result returns it; otherwise the body runs.
LoaderCall(t) ==
    /\ lpc[t] = "idle"
    /\ \/ /\ call_args[t] \in cache
          /\ module' = [module EXCEPT ![t] = "module"]
          /\ lpc' = [lpc EXCEPT ![t] = "returned"]
       \/ /\ call_args[t] \notin cache
          /\ lpc' = [lpc EXCEPT ![t] = "flags"]
          /\ UNCHANGED module
    /\ UNCHANGED <<kvars, mvars, hvars, TORCH_CUDA_ARCH_LIST, cache, call_args,
                   old_torch_cuda_arch_list, exc, arch_list_before, builds>>

\* The dtype decides the flag or raises ValueError (lines 675-680).
DtypeAccepted(dtype) == dtype = "float16" \/ dtype = "bfloat16"

LoaderFlags(t) ==
    /\ lpc[t] = "flags"
    /\ \/ /\ DtypeAccepted(call_args[t][1])
          /\ lpc' = [lpc EXCEPT ![t] = "getenv"]
          /\ UNCHANGED exc
       \/ /\ ~DtypeAccepted(call_args[t][1])
          /\ exc' = [exc EXCEPT ![t] = "ValueError"]
          /\ lpc' = [lpc EXCEPT ![t] = "raised"]
    /\ UNCHANGED <<kvars, mvars, hvars, TORCH_CUDA_ARCH_LIST, cache, call_args,
                   old_torch_cuda_arch_list, module, arch_list_before, builds>>

\* old_torch_cuda_arch_list = os.getenv("TORCH_CUDA_ARCH_LIST") (line 685).
LoaderGetenv(t) ==
    /\ lpc[t] = "getenv"
    /\ old_torch_cuda_arch_list' =
           [old_torch_cuda_arch_list EXCEPT ![t] = TORCH_CUDA_ARCH_LIST]
    /\ lpc' = [lpc EXCEPT ![t] = "setenv"]
    /\ UNCHANGED <<kvars, mvars, hvars, TORCH_CUDA_ARCH_LIST, cache, call_args,
                   module, exc, arch_list_before, builds>>

\* os.environ["TORCH_CUDA_ARCH_LIST"] = "9.0a" (line 686).
LoaderSetenv(t) ==
    /\ lpc[t] = "setenv"
    /\ TORCH_CUDA_ARCH_LIST' = "9.0a"
    /\ lpc' = [lpc EXCEPT ![t] = "load_inline"]
    /\ UNCHANGED <<kvars, mvars, hvars, cache, call_args, old_torch_cuda_arch_list,
                   module, exc, arch_list_before, builds>>

\* load_inline builds the extension and returns the module, or raises
\* (lines 687-702).
LoaderBuild(t) ==
    /\ lpc[t] = "load_inline"
    /\ builds' = Append(builds, ExtensionName(call_args[t]))
    /\ \/ /\ module' = [module EXCEPT ![t] = "module"]
          /\ UNCHANGED exc
       \/ /\ exc' = [exc EXCEPT ![t] = "BuildError"]
          /\ UNCHANGED module
    /\ lpc' = [lpc EXCEPT ![t] = "finally"]
    /\ UNCHANGED <<kvars, mvars, hvars, TORCH_CUDA_ARCH_LIST, cache, call_args,
                   old_torch_cuda_arch_list, arch_list_before>>

\* The finally block (lines 703-707): os.environ.pop raises KeyError when
\* the variable is not there, and that exception replaces the outcome of
\* the try block.
RestoreMutKeep(old, current) == current
Restore(old, current) == old

LoaderFinally(t) ==
    /\ lpc[t] = "finally"
    /\ \/ /\ old_torch_cuda_arch_list[t] = NotSet
          /\ TORCH_CUDA_ARCH_LIST # NotSet
          /\ TORCH_CUDA_ARCH_LIST' = Restore(NotSet, TORCH_CUDA_ARCH_LIST)
          /\ UNCHANGED exc
       \/ /\ old_torch_cuda_arch_list[t] = NotSet
          /\ TORCH_CUDA_ARCH_LIST = NotSet
          /\ exc' = [exc EXCEPT ![t] = "KeyError"]
          /\ UNCHANGED TORCH_CUDA_ARCH_LIST
       \/ /\ old_torch_cuda_arch_list[t] # NotSet
          /\ TORCH_CUDA_ARCH_LIST' =
                 Restore(old_torch_cuda_arch_list[t], TORCH_CUDA_ARCH_LIST)
          /\ UNCHANGED exc
    /\ lpc' = [lpc EXCEPT ![t] = IF exc'[t] = "none" THEN "return" ELSE "raised"]
    /\ UNCHANGED <<kvars, mvars, hvars, cache, call_args, old_torch_cuda_arch_list,
                   module, arch_list_before, builds>>

\* return module (line 708); functools.cache keeps the result.
LoaderReturn(t) ==
    /\ lpc[t] = "return"
    /\ cache' = cache \cup {call_args[t]}
    /\ lpc' = [lpc EXCEPT ![t] = "returned"]
    /\ UNCHANGED <<kvars, mvars, hvars, TORCH_CUDA_ARCH_LIST, call_args,
                   old_torch_cuda_arch_list, module, exc, arch_list_before, builds>>

LoaderNext ==
    \E t \in LoaderThreads :
        \/ LoaderCall(t) \/ LoaderFlags(t) \/ LoaderGetenv(t) \/ LoaderSetenv(t)
        \/ LoaderBuild(t) \/ LoaderFinally(t) \/ LoaderReturn(t)

LoaderSpec == LoaderInit /\ [][LoaderNext]_vars

Finished(t) == lpc[t] \in {"returned", "raised"}

(***************************************************************************)
(* Claims about the loader.                                                *)
(***************************************************************************)
\* C25: while no other thread has called the loader, a call that has
\* ended, by returning the module or by raising what load_inline raised,
\* has left TORCH_CUDA_ARCH_LIST as it was before the call, not set
\* included; and a call with a dtype other than float16 and bfloat16 ends
\* in ValueError, never reaches the statements that read or set the
\* variable, and starts no build.
C25_EnvRestored ==
    \A t \in LoaderThreads :
        (\A u \in LoaderThreads \ {t} : lpc[u] = "idle") =>
            /\ Finished(t) =>
                   /\ TORCH_CUDA_ARCH_LIST = arch_list_before
                   /\ exc[t] \in {"none", "BuildError", "ValueError"}
                   /\ (lpc[t] = "returned") <=> (exc[t] = "none")
                   /\ lpc[t] = "returned" => module[t] = "module"
            /\ call_args[t][1] \notin SupportedDtypes =>
                   /\ lpc[t] \in {"idle", "flags", "raised"}
                   /\ lpc[t] = "raised" => exc[t] = "ValueError"
                   /\ TORCH_CUDA_ARCH_LIST = arch_list_before
                   /\ builds = <<>>

\* C25 witness: alone, a call whose build raised has ended with the
\* variable, which was not set before, removed again.
C25_Witness ==
    \E t \in LoaderThreads :
        /\ \A u \in LoaderThreads \ {t} : lpc[u] = "idle"
        /\ lpc[t] = "raised" /\ exc[t] = "BuildError"
        /\ Len(builds) = 1
        /\ arch_list_before = NotSet /\ TORCH_CUDA_ARCH_LIST = NotSet

\* C26: two threads call the loader with different arguments of supported
\* dtype and their builds succeed: no call ends in the KeyError of the
\* restore step, and once both have ended both have returned their module
\* and TORCH_CUDA_ARCH_LIST is what it was before the two calls.
C26_ConcurrentRestore ==
    (/\ call_args[1] # call_args[2]
     /\ \A t \in LoaderThreads :
            call_args[t][1] \in SupportedDtypes /\ exc[t] # "BuildError") =>
        /\ \A t \in LoaderThreads : exc[t] # "KeyError"
        /\ (\A t \in LoaderThreads : Finished(t)) =>
               /\ \A t \in LoaderThreads :
                      lpc[t] = "returned" /\ module[t] = "module"
               /\ TORCH_CUDA_ARCH_LIST = arch_list_before

====
